---- MODULE Spec2Model ----
(***************************************************************************)
(* Model of the image engines of rk_rom_kitchen:                           *)
(*   - avb_manager.py            (vbmeta patching, dm-verity disable)      *)
(*   - super_image_engine.py     (super unpack / build, resize validation) *)
(*   - partition_image_engine.py (partition extract / repack)              *)
(* Every engine owns its own variables; one specification per engine.      *)
(***************************************************************************)
EXTENDS Integers, Sequences, FiniteSets, TLC

(***************************************************************************)
(* Bounds of the model                                                     *)
(***************************************************************************)
MaxOrigUnits == 3
MaxCandUnits == 2
MaxFstab == 2
MaxRzSize == 2
MaxRzBudget == 3
MaxPartBlocks == 2
MaxSuperBlocks == 3
MaxImgUnits == 3
MaxFiles == 1
MaxTailLen == 2
MaxSlotNames == 3
MaxNameLen == 4
MaxTreeFiles == 2
MaxFileSize == 2
MaxMtime == 2
MaxLineLen == 4
MaxFileLines == 2
MaxTasks == 3
MaxEdits == 2

(***************************************************************************)
(* Program constants                                                       *)
(***************************************************************************)
PaddingSize == 4096
MinimalVbmetaSize == 4096
SuperBlockSize == 4096

(***************************************************************************)
(* Generic helpers                                                         *)
(***************************************************************************)
RECURSIVE SeqSum(_)
SeqSum(s) == IF s = <<>> THEN 0 ELSE Head(s) + SeqSum(Tail(s))

SeqToSet(s) == {s[i] : i \in 1..Len(s)}

RECURSIVE FlattenSeq(_)
FlattenSeq(ss) == IF ss = <<>> THEN <<>> ELSE Head(ss) \o FlattenSeq(Tail(ss))

RECURSIVE Dedupe(_)
Dedupe(s) ==
  IF s = <<>> THEN <<>>
  ELSE LET init == SubSeq(s, 1, Len(s) - 1)
           last == s[Len(s)]
       IN  IF last \in SeqToSet(init) THEN Dedupe(init)
           ELSE Append(Dedupe(init), last)

Orderings(S) ==
  {s \in [1..Cardinality(S) -> S] : \A i, j \in 1..Cardinality(S) : s[i] = s[j] => i = j}

(***************************************************************************)
(* TaskResult (task_defs.py)                                               *)
(***************************************************************************)
TaskSuccess(m, arts) == [ok |-> TRUE, code |-> 0, message |-> m, artifacts |-> arts]
TaskError(m) == [ok |-> FALSE, code |-> 1, message |-> m, artifacts |-> <<>>]
TaskCancelled == [ok |-> FALSE, code |-> -1, message |-> "cancelled", artifacts |-> <<>>]
NoResult == [ok |-> FALSE, code |-> 0, message |-> "none", artifacts |-> <<>>]

(***************************************************************************)
(* Files.  A file is its payload length (body) plus the zero bytes         *)
(* appended to it (pad); origin tells who wrote it.                        *)
(***************************************************************************)
NoFile == [body |-> 0, pad |-> 0, origin |-> "none"]
Exists(f) == f.origin # "none"
Size(f) == f.body + f.pad
OrigFile(n) == [body |-> n, pad |-> 0, origin |-> "orig"]

OrigSizes == {(PaddingSize \div 2) * k : k \in 1..MaxOrigUnits}
CandSizes == {PaddingSize * k : k \in 1..MaxCandUnits}

(***************************************************************************)
(* vbmeta file names (stems of vbmeta*.img), as character sequences with   *)
(* the common prefix kept as one token.                                    *)
(***************************************************************************)
VB_A == <<"vbmeta", "_", "a">>
VB_SYS == <<"vbmeta", "_", "system">>
VbNames == {VB_A, VB_SYS}
SlotModes == {"auto", "A", "B", "both"}

EndsWith(s, suf) ==
  Len(s) >= Len(suf) /\ SubSeq(s, Len(s) - Len(suf) + 1, Len(s)) = suf

VARIABLES
  in_dir,         \* in/vbmeta*.img                       : name -> file
  out_dir,        \* out/Image/update/partitions/*.img    : name -> file
  tmp_dir,        \* out/Image/update/partitions/temp_*   : name -> file
  slot_mode,      \* project.config.slot_mode, as the running task read it
  avbtool,        \* registry.get_tool_path("avbtool") is not None, as the task read it
  cancel_token,   \* the Event handed to the running task
  op,             \* the entry point running
  pc,             \* its position
  vb_targets,     \* targets still to process (loop of patch_all_vbmeta)
  patched_count,
  artifacts,
  vb_result,      \* result of patch_all_vbmeta
  fs_left,        \* fstab files still to process (loop of disable_fstab_only)
  fs_ok,          \* ok results so far
  fs_result,      \* result of disable_fstab_only
  op_result,      \* result returned by the entry point
  run_in0,        \* history: size of every target when the run scanned it
  run_out0,       \* history: out_dir when the run started
  oversize,       \* history: targets whose candidate was larger than the original
  processed,      \* history: targets whose loop body ran, in order
  size0           \* history: target sizes at Init

avbVars == <<in_dir, out_dir, tmp_dir, slot_mode, avbtool, cancel_token,
             op, pc, vb_targets, patched_count, artifacts, vb_result, fs_left, fs_ok,
             fs_result, op_result, run_in0, run_out0, oversize, processed, size0>>

VARIABLES
  rz_meta,        \* SuperMetadata handed to the resize validation
  rz_new,         \* new_sizes: partition name -> size, for the partitions with an image
  rz_mode,        \* resize_mode of the validation that ran
  rz_result       \* what the validation returned

rzVars == <<rz_meta, rz_new, rz_mode, rz_result>>

VARIABLES
  sp_super,        \* the super*.img the candidate globs find: "absent", "raw", "sparse"
  sp_layout,       \* what lpdump prints for it, parsed (SuperMetadata)
  sp_meta_out,     \* out/Image/super/super_metadata.json
  sp_meta_legacy,  \* extract/super_metadata.json
  sp_parts_dir,    \* out/Image/super/partitions/ exists
  sp_parts,        \* out/Image/super/partitions/<name>.img : name -> image
  sp_legacy_parts, \* extract/partitions/<name>.img         : name -> image
  sp_out_raw,      \* out/Image/super/super_patched.img exists
  sp_out_sparse,   \* out/Image/super/super_patched_sparse.img exists
  sp_pc,           \* "idle", or "done" when the task's result is available
  sp_op,           \* the entry point that ran
  sp_args,         \* its arguments resize_mode and output_sparse
  sp_result,       \* the TaskResult it returned
  sp_work,         \* partition_paths of build_super_img, with the stat of each work_path
  sp_tool,         \* history: did lpunpack / lpmake run, and on a sparse input
  sp_conv,         \* history: how the img2simg step of the build went
  sp_out0,         \* history: the two output files when the task started
  sp_unpacked      \* history: some unpack_super_img has returned success

spVars == <<sp_super, sp_layout, sp_meta_out, sp_meta_legacy, sp_parts_dir, sp_parts,
            sp_legacy_parts, sp_out_raw, sp_out_sparse, sp_pc, sp_op, sp_args,
            sp_result, sp_work, sp_tool, sp_conv, sp_out0, sp_unpacked>>

VARIABLES
  pt_img,          \* the partition image the project was created with (in/<name>.img)
  pt_legacy,       \* extract/partition_metadata.json, left by an older version
  pt_src,          \* out/Source/<name>/                        : name -> directory
  pt_meta,         \* extract/partition_metadata/<name>.json    : name -> record
  pt_index,        \* extract/partition_index.json, its "partitions" list
  pt_out,          \* out/Image/<name>_patched{,.raw,_sparse}.img : name -> files
  pt_pc,           \* "idle", or "done" when the task's result is available
  pt_op,           \* the entry point that ran
  pt_arg,          \* its arguments partition_name and output_sparse
  pt_result,       \* the TaskResult it returned
  pt_run,          \* history: which tools ran, on what, and how they ended
  pt_before        \* history: records, index and output files when the task started

ptVars == <<pt_img, pt_legacy, pt_src, pt_meta, pt_index, pt_out, pt_pc, pt_op, pt_arg,
            pt_result, pt_run, pt_before>>

VARIABLES
  sl_names,        \* the partition names handed to the slot resolver, in list order
  sl_mode,         \* project.config.slot_mode
  sl_op,           \* which resolver ran: "filter", "scan", or "none"
  sl_result        \* the list it returned

slVars == <<sl_names, sl_mode, sl_op, sl_result>>

VARIABLES
  nm_name,         \* a partition name (a path stem, or a mount point given by the user)
  nm_op,           \* which base-name derivation ran
  nm_result,       \* the name it returned
  nm_selected      \* unpack_update_img: the partition was taken for extraction

nmVars == <<nm_name, nm_op, nm_result, nm_selected>>

VARIABLES
  dt_files,        \* the files under out/Source/<partition>/ : path -> size and mtime
  dt_dirty,        \* extract/dirty.json
  dt_snap,         \* extract/source_snapshot.json
  dt_last,         \* history: the auto_detect_dirty call that ran last, and what it returned
  dt_wrote         \* history: the last flag value an operation wrote for each partition

dtVars == <<dt_files, dt_dirty, dt_snap, dt_last, dt_wrote>>

VARIABLES
  ra_left,         \* repack_all_partitions: the index entries the loop has not reached
  ra_results,      \* its results list, one (pname, result) per item it started
  ra_sparse,       \* its output_sparse argument
  ra_cancel        \* the _cancel_token Event of the running bulk task

raVars == <<ra_left, ra_results, ra_sparse, ra_cancel>>

VARIABLES
  fl_line,         \* one line of an fstab file, as a sequence of words and separators
  fl_op,           \* "patch" once patch_fstab_file has handled the line
  fl_out           \* the line it wrote back

flVars == <<fl_line, fl_op, fl_out>>

VARIABLES
  ff_dir,          \* the files of source/vendor_a/etc: name -> lines, or absent
  ff_orig,         \* history: the directory before the first patch run
  ff_todo,         \* disable_fstab_only: the fstab files found and not yet patched
  ff_picked,       \* history: every file name a patch run has selected so far
  ff_result        \* the TaskResult of the last patch_fstab_file call

ffVars == <<ff_dir, ff_orig, ff_todo, ff_picked, ff_result>>

VARIABLES
  sm_state,        \* StateMachine._state
  sm_current,      \* StateMachine._current_task
  tm_counter,      \* TaskManager._task_counter
  tm_call,         \* per calling thread: where its submit call is, its task type, its return value
  tm_worker,       \* per calling thread: the Worker its submit created
  tm_finishes      \* history: finish_task calls made for the task of each calling thread

tmVars == <<sm_state, sm_current, tm_counter, tm_call, tm_worker, tm_finishes>>

VARIABLES
  bi_defaults,     \* build_image.DEFAULT_PARTITION_CONFIGS, the module-level dict of config objects
  bi_disk,         \* per project and partition: the Source folder and its metadata files
  bi_pc,           \* where the build_image_bulk call is
  bi_call,         \* the arguments of the call and the partitions still to do
  bi_cancel,       \* the cancel token of the call
  bi_failed,       \* build_image_bulk: failed
  bi_last,         \* history: the config build_image was last given in this call
  bi_result,       \* the TaskResult of the call
  bi_edits         \* how many changes the user made to the projects

biVars == <<bi_defaults, bi_disk, bi_pc, bi_call, bi_cancel, bi_failed, bi_last, bi_result, bi_edits>>

vars == <<avbVars, rzVars, spVars, ptVars, slVars, nmVars, dtVars, raVars, flVars, ffVars, tmVars, biVars>>

\* what the operations of one engine leave alone: the other engines' state
AvbFrame == UNCHANGED <<rzVars, spVars, ptVars, slVars, nmVars, dtVars, raVars, flVars, ffVars, tmVars, biVars>>
RzFrame == UNCHANGED <<avbVars, spVars, ptVars, slVars, nmVars, dtVars, raVars, flVars, ffVars, tmVars, biVars>>
SpFrame == UNCHANGED <<avbVars, rzVars, ptVars, slVars, nmVars, dtVars, raVars, flVars, ffVars, tmVars, biVars>>
PtFrame == UNCHANGED <<avbVars, rzVars, spVars, slVars, nmVars, dtVars, raVars, flVars, ffVars, tmVars, biVars>>
SlFrame == UNCHANGED <<avbVars, rzVars, spVars, ptVars, nmVars, dtVars, raVars, flVars, ffVars, tmVars, biVars>>
NmFrame == UNCHANGED <<avbVars, rzVars, spVars, ptVars, slVars, dtVars, raVars, flVars, ffVars, tmVars, biVars>>
DtFrame == UNCHANGED <<avbVars, rzVars, spVars, ptVars, slVars, nmVars, raVars, flVars, ffVars, tmVars, biVars>>
RaFrame == UNCHANGED <<avbVars, rzVars, spVars, slVars, nmVars, dtVars, flVars, ffVars, tmVars, biVars>>
FlFrame == UNCHANGED <<avbVars, rzVars, spVars, ptVars, slVars, nmVars, dtVars, raVars, ffVars, tmVars, biVars>>
FfFrame == UNCHANGED <<avbVars, rzVars, spVars, ptVars, slVars, nmVars, dtVars, raVars, flVars, tmVars, biVars>>
TmFrame == UNCHANGED <<avbVars, rzVars, spVars, ptVars, slVars, nmVars, dtVars, raVars, flVars, ffVars, biVars>>
BiFrame == UNCHANGED <<avbVars, rzVars, spVars, ptVars, slVars, nmVars, dtVars, raVars, flVars, ffVars, tmVars>>

(***************************************************************************)
(* scan_vbmeta_targets                                                     *)
(***************************************************************************)
\* candidates: first hit wins, out/Image/update/partitions before in/
CandidateDir(outd, ind, n) ==
  IF Exists(outd[n]) THEN "out" ELSE IF Exists(ind[n]) THEN "in" ELSE "none"

CandidateNames(outd, ind) == {n \in VbNames : CandidateDir(outd, ind, n) # "none"}

\* every order the two globs can deliver the candidates in
CandidateOrders(outd, ind) ==
  {s \in Orderings(CandidateNames(outd, ind)) :
     \A i, j \in 1..Len(s) :
       (CandidateDir(outd, ind, s[i]) = "out" /\ CandidateDir(outd, ind, s[j]) = "in")
          => i < j}

VbSlot(name) ==
  IF EndsWith(name, <<"_", "a">>) THEN "a"
  ELSE IF EndsWith(name, <<"_", "b">>) THEN "b" ELSE "base"

VbBase(name) ==
  IF VbSlot(name) = "base" THEN name ELSE SubSeq(name, 1, Len(name) - 2)

\* the variant of base in the given slot, as a 0/1-element sequence
Variant(names, base, slot) ==
  LET hit == {n \in names : VbBase(n) = base /\ VbSlot(n) = slot}
  IN  IF hit = {} THEN <<>> ELSE <<CHOOSE n \in hit : TRUE>>

ApplySlotRule(names, base, mode) ==
  LET a == Variant(names, base, "a")
      b == Variant(names, base, "b")
      p == Variant(names, base, "base")
  IN  CASE mode = "auto" -> IF a # <<>> THEN a ELSE IF b # <<>> THEN b ELSE p
        [] mode = "A"    -> IF a # <<>> THEN a ELSE p
        [] mode = "B"    -> IF b # <<>> THEN b ELSE p
        [] mode = "both" -> a \o b \o (IF a = <<>> /\ b = <<>> THEN p ELSE <<>>)
        [] OTHER         -> <<>>

\* cands: the candidate names in dict order
ScanVbmetaTargets(cands, mode) ==
  LET groups == Dedupe([i \in 1..Len(cands) |-> VbBase(cands[i])])
  IN  FlattenSeq([g \in 1..Len(groups) |-> ApplySlotRule(SeqToSet(cands), groups[g], mode)])

(***************************************************************************)
(* patch_all_vbmeta: one loop iteration                                    *)
(***************************************************************************)
\* what one subprocess.run of avbtool can do: its return code and the size of
\* the file it left at --output (0: none)
ToolRuns == [rc : {0, 1}, wrote : CandSizes \cup {0}]

CreateMinimalVbmeta == [body |-> MinimalVbmetaSize, pad |-> 0, origin |-> "minimal"]

\* the candidate at temp_path: avbtool's output unless avbtool is missing, failed
\* (its output is unlinked) or wrote nothing; then the built-in header
MakeCandidate(hasTool, run, stale) ==
  LET written == IF hasTool /\ run.wrote # 0
                 THEN [body |-> run.wrote, pad |-> 0, origin |-> "avbtool"]
                 ELSE stale
      kept    == IF hasTool /\ run.rc # 0 THEN NoFile ELSE written
  IN  IF Exists(kept) THEN kept ELSE CreateMinimalVbmeta

IsOversizeInverted(temp_size, orig_size) == temp_size < orig_size

IsOversize(temp_size, orig_size) == temp_size > orig_size

PadToOriginalNoPad(temp, orig_size) == temp

PadToOriginal(temp, orig_size) ==
  IF Size(temp) < orig_size
  THEN [temp EXCEPT !.pad = @ + (orig_size - Size(temp))]
  ELSE temp

TargetFile(t) == IF t.dir = "out" THEN out_dir[t.name] ELSE in_dir[t.name]

ScannedTargets(cands, mode) ==
  LET names == ScanVbmetaTargets(cands, mode)
  IN  [i \in 1..Len(names) |->
         [dir |-> CandidateDir(out_dir, in_dir, names[i]), name |-> names[i]]]

CriticalMsg == "CRITICAL"

VbFinal(count, arts) ==
  IF count = 0 THEN TaskError("No files patched")
  ELSE TaskSuccess("Patched", arts)


FstabFinal(ok_count) ==
  IF ok_count = 0 THEN TaskError("All fstab patches failed")
  ELSE TaskSuccess("Patched fstab", <<>>)

\* summary of disable_dm_verity_full over its two part results
DmSummary(results) ==
  LET ok_count   == Cardinality({i \in 1..Len(results) : results[i].ok})
      fail_count == Cardinality({i \in 1..Len(results) : ~results[i].ok})
  IN  IF fail_count > 0 /\ ok_count = 0 THEN TaskError("Both A and B failed")
      ELSE TaskSuccess("Disabled dm-verity", <<>>)

NoTargets == [n \in VbNames |-> 0]
NoFiles == [n \in VbNames |-> NoFile]

AvbInit ==
  /\ \E place \in [VbNames -> {"none", "in", "out"}], sz \in [VbNames -> OrigSizes] :
       /\ \A n \in VbNames : place[n] = "none" => sz[n] = PaddingSize
       /\ in_dir = [n \in VbNames |-> IF place[n] = "in" THEN OrigFile(sz[n]) ELSE NoFile]
       /\ out_dir = [n \in VbNames |-> IF place[n] = "out" THEN OrigFile(sz[n]) ELSE NoFile]
  /\ tmp_dir = NoFiles
  /\ slot_mode = "auto"
  /\ avbtool = FALSE
  /\ cancel_token = FALSE
  /\ op = "none"
  /\ pc = "idle"
  /\ vb_targets = <<>>
  /\ patched_count = 0
  /\ artifacts = <<>>
  /\ vb_result = NoResult
  /\ fs_left = 0
  /\ fs_ok = 0
  /\ fs_result = NoResult
  /\ op_result = NoResult
  /\ run_in0 = NoTargets
  /\ run_out0 = out_dir
  /\ oversize = {}
  /\ processed = <<>>
  /\ size0 = [n \in VbNames |->
               IF Exists(out_dir[n]) THEN Size(out_dir[n]) ELSE Size(in_dir[n])]

\* entry of patch_all_vbmeta (directly, or as part A of disable_dm_verity_full)
StartVbmeta(o) ==
  /\ pc = "idle"
  /\ \E cands \in CandidateOrders(out_dir, in_dir), mode \in SlotModes, tool \in BOOLEAN :
       LET targets == ScannedTargets(cands, mode)
       IN  /\ vb_targets' = targets
           /\ slot_mode' = mode
           /\ avbtool' = tool
           /\ run_in0' = [n \in VbNames |->
                 IF \E i \in 1..Len(targets) : targets[i].name = n
                 THEN Size(TargetFile([dir |-> CandidateDir(out_dir, in_dir, n), name |-> n]))
                 ELSE 0]
           /\ IF targets = <<>>
              THEN /\ vb_result' = TaskError("No vbmeta targets")
                   /\ pc' = "vb_done"
              ELSE /\ vb_result' = NoResult
                   /\ pc' = "vb_loop"
  /\ op' = o
  /\ cancel_token' = FALSE
  /\ patched_count' = 0
  /\ artifacts' = <<>>
  /\ run_out0' = out_dir
  /\ oversize' = {}
  /\ processed' = <<>>
  /\ AvbFrame
  /\ UNCHANGED <<in_dir, out_dir, tmp_dir, fs_left, fs_ok, fs_result, op_result, size0>>

PatchAllVbmeta == StartVbmeta("patch_all_vbmeta")

DisableDmVerityFull == StartVbmeta("disable_dm_verity_full")

\* one pass of the loop "for target in targets" of patch_all_vbmeta
PatchTarget ==
  /\ pc = "vb_loop"
  /\ IF cancel_token
     THEN /\ vb_result' = VbFinal(patched_count, artifacts)
          /\ pc' = "vb_done"
          /\ UNCHANGED <<out_dir, tmp_dir, vb_targets, patched_count, artifacts,
                         oversize, processed>>
     ELSE \E run \in ToolRuns :
          LET t         == Head(vb_targets)
              orig_size == Size(TargetFile(t))
              temp      == MakeCandidate(avbtool, run, tmp_dir[t.name])
          IN  /\ processed' = Append(processed, t.name)
              /\ tmp_dir' = [tmp_dir EXCEPT ![t.name] = NoFile]
              /\ oversize' = IF Size(temp) > orig_size THEN oversize \cup {t.name}
                             ELSE oversize
              /\ IF IsOversize(Size(temp), orig_size)
                 THEN /\ vb_result' = TaskError(CriticalMsg)
                      /\ pc' = "vb_done"
                      /\ UNCHANGED <<out_dir, vb_targets, patched_count, artifacts>>
                 ELSE /\ out_dir' = [out_dir EXCEPT ![t.name] = PadToOriginal(temp, orig_size)]
                      /\ artifacts' = Append(artifacts, t.name)
                      /\ patched_count' = patched_count + 1
                      /\ vb_targets' = Tail(vb_targets)
                      /\ IF Tail(vb_targets) = <<>>
                         THEN /\ vb_result' = VbFinal(patched_count + 1, Append(artifacts, t.name))
                              /\ pc' = "vb_done"
                         ELSE /\ vb_result' = vb_result
                              /\ pc' = "vb_loop"
  /\ AvbFrame
  /\ UNCHANGED <<in_dir, slot_mode, avbtool, cancel_token, op,
                 fs_left, fs_ok, fs_result, op_result, run_in0, run_out0, size0>>

\* entry of disable_fstab_only: find_fstab_files (it finds any number of files
\* up to MaxFstab) and the empty-list check
BeginFstab ==
  \E fstab_list \in 0..MaxFstab :
    IF fstab_list = 0
    THEN /\ fs_result' = TaskError("No fstab files found")
         /\ pc' = "fs_done"
         /\ fs_left' = 0
         /\ fs_ok' = 0
    ELSE /\ fs_result' = NoResult
         /\ pc' = "fs_loop"
         /\ fs_left' = fstab_list
         /\ fs_ok' = 0

\* patch_all_vbmeta returns to its caller
VbmetaReturn ==
  /\ pc = "vb_done"
  /\ IF op = "patch_all_vbmeta"
     THEN /\ op_result' = vb_result
          /\ pc' = "done"
          /\ UNCHANGED <<fs_left, fs_ok, fs_result>>
     ELSE IF cancel_token
          THEN /\ op_result' = TaskCancelled
               /\ pc' = "done"
               /\ UNCHANGED <<fs_left, fs_ok, fs_result>>
          ELSE /\ BeginFstab
               /\ op_result' = op_result
  /\ AvbFrame
  /\ UNCHANGED <<in_dir, out_dir, tmp_dir, slot_mode, avbtool, cancel_token,
                 op, vb_targets, patched_count, artifacts, vb_result,
                 run_in0, run_out0, oversize, processed, size0>>

DisableFstabOnly ==
  /\ pc = "idle"
  /\ op' = "disable_fstab_only"
  /\ cancel_token' = FALSE
  /\ BeginFstab
  /\ vb_targets' = <<>>
  /\ patched_count' = 0
  /\ artifacts' = <<>>
  /\ vb_result' = NoResult
  /\ run_in0' = NoTargets
  /\ run_out0' = out_dir
  /\ oversize' = {}
  /\ processed' = <<>>
  /\ AvbFrame
  /\ UNCHANGED <<in_dir, out_dir, tmp_dir, slot_mode, avbtool, op_result, size0>>

\* one pass of the loop "for fstab in fstab_list" of disable_fstab_only;
\* patched: patch_fstab_file returned ok (it returns an error on any exception)
PatchFstab ==
  /\ pc = "fs_loop"
  /\ IF cancel_token
     THEN /\ fs_result' = FstabFinal(fs_ok)
          /\ pc' = "fs_done"
          /\ UNCHANGED <<fs_left, fs_ok>>
     ELSE \E patched \in BOOLEAN :
          LET ok_count == fs_ok + (IF patched THEN 1 ELSE 0)
          IN  /\ fs_ok' = ok_count
              /\ fs_left' = fs_left - 1
              /\ IF fs_left = 1
                 THEN /\ fs_result' = FstabFinal(ok_count)
                      /\ pc' = "fs_done"
                 ELSE /\ fs_result' = fs_result
                      /\ pc' = "fs_loop"
  /\ AvbFrame
  /\ UNCHANGED <<in_dir, out_dir, tmp_dir, slot_mode, avbtool, cancel_token,
                 op, vb_targets, patched_count, artifacts, vb_result, op_result,
                 run_in0, run_out0, oversize, processed, size0>>

\* disable_fstab_only returns to its caller
FstabReturn ==
  /\ pc = "fs_done"
  /\ op_result' = IF op = "disable_fstab_only" THEN fs_result
                  ELSE DmSummary(<<vb_result, fs_result>>)
  /\ pc' = "done"
  /\ AvbFrame
  /\ UNCHANGED <<in_dir, out_dir, tmp_dir, slot_mode, avbtool, cancel_token,
                 op, vb_targets, patched_count, artifacts, vb_result, fs_left, fs_ok,
                 fs_result, run_in0, run_out0, oversize, processed, size0>>

\* TaskManager.cancel sets the Event of the running task
Cancel ==
  /\ pc \in {"vb_loop", "vb_done", "fs_loop", "fs_done"}
  /\ ~cancel_token
  /\ cancel_token' = TRUE
  /\ AvbFrame
  /\ UNCHANGED <<in_dir, out_dir, tmp_dir, slot_mode, avbtool,
                 op, pc, vb_targets, patched_count, artifacts, vb_result, fs_left, fs_ok,
                 fs_result, op_result, run_in0, run_out0, oversize, processed, size0>>

\* the task's result is delivered; the next task may start
TaskFinished ==
  /\ pc = "done"
  /\ pc' = "idle"
  /\ op' = "none"
  /\ cancel_token' = FALSE
  /\ vb_targets' = <<>>
  /\ patched_count' = 0
  /\ artifacts' = <<>>
  /\ vb_result' = NoResult
  /\ fs_left' = 0
  /\ fs_ok' = 0
  /\ fs_result' = NoResult
  /\ op_result' = NoResult
  /\ run_in0' = NoTargets
  /\ run_out0' = out_dir
  /\ oversize' = {}
  /\ processed' = <<>>
  /\ slot_mode' = "auto"
  /\ avbtool' = FALSE
  /\ AvbFrame
  /\ UNCHANGED <<in_dir, out_dir, tmp_dir, size0>>


(***************************************************************************)
(* super_image_engine.py: resize validation                                *)
(***************************************************************************)
AlignSize(size, alignment) ==
  IF alignment <= 0 THEN size
  ELSE ((size + alignment - 1) \div alignment) * alignment

\* new_sizes.get(part.name, part.size)
NewSizeOf(new_sizes, part) ==
  IF part.name \in DOMAIN new_sizes THEN new_sizes[part.name] ELSE part.size

\* part.group or "default"
GroupOf(part) == IF part.group = "" THEN "default" ELSE part.group

\* meta.groups.get(group, meta.capacity)
GroupMax(meta, g) == IF g \in DOMAIN meta.groups THEN meta.groups[g] ELSE meta.capacity

\* the keys of group_totals, in insertion order
GroupOrder(meta) ==
  Dedupe([i \in 1..Len(meta.partitions) |-> GroupOf(meta.partitions[i])])

GroupTotal(new_sizes, meta, g) ==
  SeqSum([i \in 1..Len(meta.partitions) |->
            IF GroupOf(meta.partitions[i]) = g
            THEN NewSizeOf(new_sizes, meta.partitions[i]) ELSE 0])

ResizeOk == [ok |-> TRUE, kind |-> "ok", who |-> "", delta |-> 0]
ResizeError(k, w, d) == [ok |-> FALSE, kind |-> k, who |-> w, delta |-> d]
ResizeNone == [ok |-> FALSE, kind |-> "none", who |-> "", delta |-> 0]

ValidateResizeStrictNever(new_sizes, meta) == ResizeOk

ValidateResizeStrict(new_sizes, meta) ==
  LET bad == {i \in 1..Len(meta.partitions) :
                NewSizeOf(new_sizes, meta.partitions[i]) > meta.partitions[i].size}
  IN  IF bad = {} THEN ResizeOk
      ELSE LET i    == CHOOSE k \in bad : \A j \in bad : k <= j
               part == meta.partitions[i]
           IN  ResizeError("strict", part.name, NewSizeOf(new_sizes, part) - part.size)

ValidateResizeAutoTotalFirst(new_sizes, meta) ==
  LET order     == GroupOrder(meta)
      total_all == SeqSum([i \in 1..Len(order) |-> GroupTotal(new_sizes, meta, order[i])])
      bad       == {i \in 1..Len(order) :
                      GroupTotal(new_sizes, meta, order[i]) > GroupMax(meta, order[i])}
  IN  IF total_all > meta.capacity
      THEN ResizeError("capacity", "", total_all - meta.capacity)
      ELSE IF bad # {}
      THEN LET i == CHOOSE k \in bad : \A j \in bad : k <= j
           IN  ResizeError("group", order[i],
                           GroupTotal(new_sizes, meta, order[i]) - GroupMax(meta, order[i]))
      ELSE ResizeOk

ValidateResizeAuto(new_sizes, meta) ==
  LET order     == GroupOrder(meta)
      total_all == SeqSum([i \in 1..Len(order) |-> GroupTotal(new_sizes, meta, order[i])])
      bad       == {i \in 1..Len(order) :
                      GroupTotal(new_sizes, meta, order[i]) > GroupMax(meta, order[i])}
  IN  IF bad # {}
      THEN LET i == CHOOSE k \in bad : \A j \in bad : k <= j
           IN  ResizeError("group", order[i],
                           GroupTotal(new_sizes, meta, order[i]) - GroupMax(meta, order[i]))
      ELSE IF total_all > meta.capacity
      THEN ResizeError("capacity", "", total_all - meta.capacity)
      ELSE ResizeOk

(***************************************************************************)
(* Resize validation on its own: every metadata and size table within the  *)
(* bounds, validated in either mode.                                       *)
(***************************************************************************)
RzNames == <<"system", "vendor">>
RzGroupNames == {"", "main", "aux"}
RzDeclared == {"default", "main"}
RzSizes == 0..MaxRzSize
RzBudgets == 1..MaxRzBudget

PartialFuns(D, R) == UNION {[S -> R] : S \in SUBSET D}

RzInit ==
  /\ \E grp \in [1..Len(RzNames) -> RzGroupNames], sz \in [1..Len(RzNames) -> RzSizes],
        budgets \in PartialFuns(RzDeclared, RzBudgets), cap \in 0..MaxRzBudget :
       rz_meta = [block_size |-> SuperBlockSize,
                  capacity   |-> cap,
                  groups     |-> budgets,
                  partitions |-> [i \in 1..Len(RzNames) |->
                                    [name |-> RzNames[i], group |-> grp[i], size |-> sz[i],
                                     attributes |-> ""]]]
  /\ rz_new \in PartialFuns(SeqToSet(RzNames), RzSizes)
  /\ rz_mode = "none"
  /\ rz_result = ResizeNone

RzIdle ==
  /\ rz_meta = [block_size |-> SuperBlockSize, capacity |-> 0, groups |-> <<>>,
                partitions |-> <<>>]
  /\ rz_new = <<>>
  /\ rz_mode = "none"
  /\ rz_result = ResizeNone

AvbIdle ==
  /\ in_dir = NoFiles
  /\ out_dir = NoFiles
  /\ tmp_dir = NoFiles
  /\ slot_mode = "auto"
  /\ avbtool = FALSE
  /\ cancel_token = FALSE
  /\ op = "none"
  /\ pc = "idle"
  /\ vb_targets = <<>>
  /\ patched_count = 0
  /\ artifacts = <<>>
  /\ vb_result = NoResult
  /\ fs_left = 0
  /\ fs_ok = 0
  /\ fs_result = NoResult
  /\ op_result = NoResult
  /\ run_in0 = NoTargets
  /\ run_out0 = NoFiles
  /\ oversize = {}
  /\ processed = <<>>
  /\ size0 = NoTargets

RunValidateAuto ==
  /\ rz_mode = "none"
  /\ rz_mode' = "auto"
  /\ rz_result' = ValidateResizeAuto(rz_new, rz_meta)
  /\ RzFrame
  /\ UNCHANGED <<rz_meta, rz_new>>

RunValidateStrict ==
  /\ rz_mode = "none"
  /\ rz_mode' = "strict"
  /\ rz_result' = ValidateResizeStrict(rz_new, rz_meta)
  /\ RzFrame
  /\ UNCHANGED <<rz_meta, rz_new>>


(***************************************************************************)
(* super_image_engine.py: unpack_super_img and build_super_img             *)
(***************************************************************************)
SuperPartNames == <<"system", "vendor">>
SuperPartSet == SeqToSet(SuperPartNames)
ResizeModes == {"auto", "strict"}

\* an image file: what its first 4 bytes say it is, and the length of the raw
\* image it holds
NoImage == [kind |-> "absent", len |-> 0]
RawImage(n) == [kind |-> "raw", len |-> n]
SparseImage(n) == [kind |-> "sparse", len |-> n]
NoImages == [n \in SuperPartSet |-> NoImage]
ImageLens == {(SuperBlockSize \div 2) * k : k \in 1..MaxImgUnits}
Images == {NoImage} \cup {RawImage(n) : n \in ImageLens}
                    \cup {SparseImage(n) : n \in ImageLens}

\* magic == b'\x3a\xff\x26\xed'
IsSparseMagic(img) == img.kind = "sparse"

\* Path.stat().st_size: a sparse file is shorter than the raw image it encodes
StatSize(img) == IF img.kind = "sparse" THEN img.len \div 2 ELSE img.len

\* SuperMetadata as parse_lpdump_output fills it: partitions "system" (group main)
\* and "vendor" (no group line), a blocks and b blocks long
LpdumpLayout(a, b) ==
  [block_size  |-> SuperBlockSize,
   capacity    |-> MaxSuperBlocks * SuperBlockSize,
   groups      |-> ("main" :> (MaxSuperBlocks * SuperBlockSize)),
   partitions  |-> <<[name |-> SuperPartNames[1], group |-> "main",
                      size |-> a * SuperBlockSize, attributes |-> "readonly"],
                     [name |-> SuperPartNames[2], group |-> "",
                      size |-> b * SuperBlockSize, attributes |-> ""]>>,
   slot_suffix |-> "",
   raw_output  |-> "lpdump"]

EmptyMeta ==
  [block_size |-> SuperBlockSize, capacity |-> 0, groups |-> <<>>, partitions |-> <<>>]

\* SuperMetadata.to_dict
SaveMetadata(meta) ==
  [block_size |-> meta.block_size,
   capacity   |-> meta.capacity,
   groups     |-> meta.groups,
   partitions |-> [i \in 1..Len(meta.partitions) |->
                     [name       |-> meta.partitions[i].name,
                      group      |-> meta.partitions[i].group,
                      size       |-> meta.partitions[i].size,
                      attributes |-> meta.partitions[i].attributes]]]

\* the SuperMetadata build_super_img makes of the saved dict
LoadMetadata(d) ==
  [block_size |-> d.block_size,
   capacity   |-> d.capacity,
   groups     |-> d.groups,
   partitions |-> [i \in 1..Len(d.partitions) |->
                     [name       |-> d.partitions[i].name,
                      group      |-> d.partitions[i].group,
                      size       |-> d.partitions[i].size,
                      attributes |-> d.partitions[i].attributes]]]

NoMetaFile == [present |-> FALSE, meta |-> EmptyMeta]

WriteMetaFileSkipped(meta) == NoMetaFile

\* meta_file.write_text(json.dumps(meta.to_dict()))
WriteMetaFile(meta) == [present |-> TRUE, meta |-> SaveMetadata(meta)]

\* the images lpunpack writes for a layout
UnpackedImages(meta) ==
  [n \in SuperPartSet |->
     LET hit == {i \in 1..Len(meta.partitions) : meta.partitions[i].name = n}
     IN  IF hit = {} THEN NoImage
         ELSE RawImage(meta.partitions[CHOOSE i \in hit : TRUE].size)]

SpOk(k, art) == [ok |-> TRUE, kind |-> k, who |-> "", delta |-> 0, artifact |-> art]
SpError(k, w, d) == [ok |-> FALSE, kind |-> k, who |-> w, delta |-> d, artifact |-> "none"]
SpNone == [ok |-> FALSE, kind |-> "none", who |-> "", delta |-> 0, artifact |-> "none"]

NoTool == [ran |-> FALSE, fed_sparse |-> FALSE]
NoArgs == [mode |-> "none", sparse |-> FALSE]
NoWork == [src |-> "none", sparse |-> FALSE, size |-> 0]
NoWorks == [n \in SuperPartSet |-> NoWork]

\* how one run of a converter (simg2img, img2simg) ends: the tool is not registered,
\* it fails (non-zero code or no output file), or it converts
ConverterRuns == {"missing", "fail", "ok"}

\* how one run of lpunpack / lpmake ends: its return code, and whether it wrote
\* its output
MainToolRuns == [rc : {0, 1}, wrote : BOOLEAN]

\* work_path of one partition and its stat: the converted raw copy in temp/ if the
\* image is sparse and simg2img converted it, else the image itself
WorkFile(img, simg2img) ==
  IF img.kind = "absent" THEN NoWork
  ELSE IF IsSparseMagic(img) /\ simg2img = "ok"
  THEN [src |-> "temp", sparse |-> FALSE, size |-> img.len]
  ELSE [src |-> "img", sparse |-> IsSparseMagic(img), size |-> StatSize(img)]

\* the loop "for part in meta.partitions" that fills partition_paths
PreparePartitions(meta, dir, simg2img) ==
  [n \in SuperPartSet |->
     IF \E i \in 1..Len(meta.partitions) : meta.partitions[i].name = n
     THEN WorkFile(dir[n], simg2img) ELSE NoWork]

NewSizes(work, meta) ==
  [n \in {m \in DOMAIN work : work[m].src # "none"} |->
     AlignSize(work[n].size, meta.block_size)]

ValidateResize(resize_mode, new_sizes, meta) ==
  IF resize_mode = "strict" THEN ValidateResizeStrict(new_sizes, meta)
  ELSE ValidateResizeAuto(new_sizes, meta)

SuperInit ==
  /\ \E a, b \in 1..MaxPartBlocks, kind \in {"raw", "sparse"}, legacy \in BOOLEAN :
       /\ a + b <= MaxSuperBlocks
       /\ sp_super = kind
       /\ sp_layout = LpdumpLayout(a, b)
       /\ sp_meta_legacy = IF legacy THEN WriteMetaFile(sp_layout) ELSE NoMetaFile
       /\ sp_legacy_parts = IF legacy THEN UnpackedImages(sp_layout) ELSE NoImages
  /\ sp_meta_out = NoMetaFile
  /\ sp_parts_dir = FALSE
  /\ sp_parts = NoImages
  /\ sp_out_raw = FALSE
  /\ sp_out_sparse = FALSE
  /\ sp_pc = "idle"
  /\ sp_op = "none"
  /\ sp_args = NoArgs
  /\ sp_result = SpNone
  /\ sp_work = NoWorks
  /\ sp_tool = NoTool
  /\ sp_conv = "none"
  /\ sp_out0 = [raw |-> FALSE, sparse |-> FALSE]
  /\ sp_unpacked = FALSE

SpIdle ==
  /\ sp_super = "absent"
  /\ sp_layout = LpdumpLayout(1, 1)
  /\ sp_meta_legacy = NoMetaFile
  /\ sp_legacy_parts = NoImages
  /\ sp_meta_out = NoMetaFile
  /\ sp_parts_dir = FALSE
  /\ sp_parts = NoImages
  /\ sp_out_raw = FALSE
  /\ sp_out_sparse = FALSE
  /\ sp_pc = "idle"
  /\ sp_op = "none"
  /\ sp_args = NoArgs
  /\ sp_result = SpNone
  /\ sp_work = NoWorks
  /\ sp_tool = NoTool
  /\ sp_conv = "none"
  /\ sp_out0 = [raw |-> FALSE, sparse |-> FALSE]
  /\ sp_unpacked = FALSE

UnpackSuperImg ==
  /\ sp_pc = "idle"
  /\ \E lpunpack_present \in BOOLEAN, lpdump_ok \in BOOLEAN :
       IF sp_super = "absent" \/ ~lpunpack_present \/ ~lpdump_ok
       THEN /\ sp_result' = SpError(IF sp_super = "absent" THEN "no_super"
                                    ELSE IF ~lpunpack_present THEN "no_lpunpack"
                                    ELSE "no_metadata_dump", "", 0)
            /\ sp_tool' = NoTool
            /\ UNCHANGED <<sp_meta_out, sp_parts_dir, sp_parts, sp_unpacked>>
       ELSE \E simg2img \in (IF sp_super = "sparse" THEN ConverterRuns ELSE {"missing"}),
               lpunpack \in MainToolRuns :
            LET is_sparse == sp_super = "sparse"
                converted == is_sparse /\ simg2img = "ok"
                unpacked  == IF lpunpack.wrote THEN UnpackedImages(sp_layout) ELSE sp_parts
                extracted == {n \in SuperPartSet : unpacked[n].kind # "absent"}
                result    == IF lpunpack.rc # 0 THEN SpError("lpunpack_failed", "", 0)
                             ELSE IF extracted = {} THEN SpError("no_partition_images", "", 0)
                             ELSE SpOk("unpacked", "partitions")
            IN  /\ sp_parts_dir' = TRUE
                /\ sp_meta_out' = WriteMetaFile(sp_layout)
                /\ sp_tool' = [ran |-> TRUE, fed_sparse |-> is_sparse /\ ~converted]
                /\ sp_parts' = unpacked
                /\ sp_result' = result
                /\ sp_unpacked' = (sp_unpacked \/ result.ok)
  /\ sp_pc' = "done"
  /\ sp_op' = "unpack"
  /\ sp_args' = NoArgs
  /\ sp_work' = NoWorks
  /\ sp_conv' = "none"
  /\ sp_out0' = [raw |-> sp_out_raw, sparse |-> sp_out_sparse]
  /\ SpFrame
  /\ UNCHANGED <<sp_super, sp_layout, sp_meta_legacy, sp_legacy_parts, sp_out_raw,
                 sp_out_sparse>>

BuildSuperImg ==
  /\ sp_pc = "idle"
  /\ \E resize_mode \in ResizeModes, output_sparse \in BOOLEAN, lpmake_present \in BOOLEAN :
       LET meta_file == IF sp_meta_out.present THEN sp_meta_out ELSE sp_meta_legacy
           meta      == LoadMetadata(meta_file.meta)
           dir       == IF sp_parts_dir THEN sp_parts ELSE sp_legacy_parts
       IN  /\ sp_args' = [mode |-> resize_mode, sparse |-> output_sparse]
           /\ IF ~lpmake_present \/ ~meta_file.present
              THEN /\ sp_result' = SpError(IF ~lpmake_present THEN "no_lpmake"
                                           ELSE "no_metadata", "", 0)
                   /\ sp_work' = NoWorks
                   /\ sp_tool' = NoTool
                   /\ sp_conv' = "none"
                   /\ UNCHANGED <<sp_out_raw, sp_out_sparse>>
              ELSE \E simg2img \in (IF \E n \in SuperPartSet : IsSparseMagic(dir[n])
                                     THEN ConverterRuns ELSE {"missing"}) :
                   LET work      == PreparePartitions(meta, dir, simg2img)
                       new_sizes == NewSizes(work, meta)
                       valid     == ValidateResize(resize_mode, new_sizes, meta)
                       fed       == \E n \in SuperPartSet : work[n].sparse
                   IN  /\ sp_work' = work
                       /\ IF ~valid.ok
                          THEN /\ sp_result' = SpError(valid.kind, valid.who, valid.delta)
                               /\ sp_tool' = NoTool
                               /\ sp_conv' = "none"
                               /\ UNCHANGED <<sp_out_raw, sp_out_sparse>>
                          ELSE \E lpmake \in MainToolRuns :
                               /\ sp_tool' = [ran |-> TRUE, fed_sparse |-> fed]
                               /\ IF lpmake.rc # 0 \/ ~(lpmake.wrote \/ sp_out_raw)
                                  THEN /\ sp_result' =
                                            SpError(IF lpmake.rc # 0 THEN "lpmake_failed"
                                                    ELSE "no_output", "", 0)
                                       /\ sp_out_raw' = (sp_out_raw \/ lpmake.wrote)
                                       /\ sp_conv' = "none"
                                       /\ UNCHANGED sp_out_sparse
                                  ELSE \E img2simg \in (IF output_sparse THEN ConverterRuns
                                                         ELSE {"missing"}) :
                                       /\ sp_conv' = IF output_sparse THEN img2simg ELSE "none"
                                       /\ IF output_sparse /\ img2simg = "ok"
                                          THEN /\ sp_out_sparse' = TRUE
                                               /\ sp_out_raw' = FALSE
                                               /\ sp_result' = SpOk("built", "sparse")
                                          ELSE /\ sp_out_raw' = TRUE
                                               /\ sp_result' = SpOk("built", "raw")
                                               /\ UNCHANGED sp_out_sparse
  /\ sp_pc' = "done"
  /\ sp_op' = "build"
  /\ sp_out0' = [raw |-> sp_out_raw, sparse |-> sp_out_sparse]
  /\ SpFrame
  /\ UNCHANGED <<sp_super, sp_layout, sp_meta_out, sp_meta_legacy, sp_parts_dir,
                 sp_parts, sp_legacy_parts, sp_unpacked>>

\* a partition image under out/Image/super/partitions/ is replaced (by a repacked
\* image) or removed before the super image is built
ReplacePartitionImage ==
  /\ sp_pc = "idle"
  /\ sp_parts_dir
  /\ \E n \in SuperPartSet, img \in Images :
       /\ img # sp_parts[n]
       /\ sp_parts' = [sp_parts EXCEPT ![n] = img]
  /\ SpFrame
  /\ UNCHANGED <<sp_super, sp_layout, sp_meta_out, sp_meta_legacy, sp_parts_dir,
                 sp_legacy_parts, sp_out_raw, sp_out_sparse, sp_pc, sp_op, sp_args,
                 sp_result, sp_work, sp_tool, sp_conv, sp_out0, sp_unpacked>>

\* the input super image is removed from in/ once it has been unpacked
DeleteSuperInput ==
  /\ sp_pc = "idle"
  /\ sp_super # "absent"
  /\ sp_super' = "absent"
  /\ SpFrame
  /\ UNCHANGED <<sp_layout, sp_meta_out, sp_meta_legacy, sp_parts_dir, sp_parts,
                 sp_legacy_parts, sp_out_raw, sp_out_sparse, sp_pc, sp_op, sp_args,
                 sp_result, sp_work, sp_tool, sp_conv, sp_out0, sp_unpacked>>

\* the task's result is delivered; the next task may start
SuperTaskFinished ==
  /\ sp_pc = "done"
  /\ sp_pc' = "idle"
  /\ sp_op' = "none"
  /\ sp_args' = NoArgs
  /\ sp_result' = SpNone
  /\ sp_work' = NoWorks
  /\ sp_tool' = NoTool
  /\ sp_conv' = "none"
  /\ sp_out0' = [raw |-> sp_out_raw, sparse |-> sp_out_sparse]
  /\ SpFrame
  /\ UNCHANGED <<sp_super, sp_layout, sp_meta_out, sp_meta_legacy, sp_parts_dir,
                 sp_parts, sp_legacy_parts, sp_out_raw, sp_out_sparse, sp_unpacked>>

(***************************************************************************)
(* partition_image_engine.py: extract_partition_image and                  *)
(* repack_partition_image                                                  *)
(***************************************************************************)
PartNames == {"system", "vendor"}
FsTypes == {"ext4", "erofs"}

NoDir == [exists |-> FALSE, files |-> 0, dirs |-> FALSE]
EmptyDir == [exists |-> TRUE, files |-> 0, dirs |-> FALSE]
NoRecord == [present |-> FALSE, fs_type |-> "unknown", was_sparse |-> FALSE]
NoOutputs == [patched |-> "absent", raw_img |-> FALSE, sparse_img |-> "absent"]
NoLegacy == [present |-> FALSE, partition_name |-> "", fs_type |-> "unknown"]
NoInput == [exists |-> FALSE, name |-> "system", sparse |-> FALSE, fs |-> "unknown"]

PtOk(k, art) == [ok |-> TRUE, kind |-> k, artifact |-> art]
PtError(k) == [ok |-> FALSE, kind |-> k, artifact |-> "none"]
PtNone == [ok |-> FALSE, kind |-> "none", artifact |-> "none"]

NoPartArg == [name |-> "", sparse |-> FALSE]
NoPartRun ==
  [conv_in |-> "none", detect_on |-> "none", extractor |-> "none", rc |-> 0,
   calls |-> 0, first_ends |-> "none", ends |-> "none", wrote |-> FALSE,
   builder |-> "none", raw_at |-> "none", conv_out |-> "none"]

\* how a subprocess.run call ends: the exit status of the tool, or TimeoutExpired
ToolEnds == {"exit_0", "exit_nonzero", "timeout"}

\* run_tool: the return code it hands back
RunTool(ends) == IF ends = "exit_0" THEN 0 ELSE IF ends = "exit_nonzero" THEN 1 ELSE -1

\* what one run of debugfs / extract.erofs leaves: its return code, how many regular
\* files and whether any directory it wrote under the output directory
ExtractorRuns ==
  {[rc |-> RunTool(ends), ends |-> ends, files |-> files, dirs |-> dirs] :
     ends \in ToolEnds, files \in 0..MaxFiles, dirs \in BOOLEAN}

\* how one run of make_ext4fs + e2fsdroid / mkfs.erofs ends: no tool registered,
\* non-zero return code, return code 0 without an output file, output written
BuilderRuns == {"missing", "fail", "nowrite", "ok"}

\* detect_fs_type reads the magic of a raw image
DetectFsType(fs) == IF fs = "ext4" THEN "ext4" ELSE IF fs = "erofs" THEN "erofs" ELSE "unknown"

\* the output directory after the extractor wrote into it
Extracted(dir, run) ==
  [exists |-> TRUE,
   files  |-> IF run.files > dir.files THEN run.files ELSE dir.files,
   dirs   |-> dir.dirs \/ run.dirs]

\* list(output_dir.rglob("*")) is not empty
HasEntries(dir) == dir.files > 0 \/ dir.dirs

ValidateExtractOutputAnyEntry(dir) == dir.exists /\ HasEntries(dir)

\* validate_extract_output: the directory exists and holds a regular file
ValidateExtractOutput(dir) == dir.exists /\ dir.files > 0

UpdateIndexAppendOnly(index, entry) == Append(index, entry)

\* the partition index with the entry of one partition added or replaced
UpdateIndex(index, entry) ==
  Append(SelectSeq(index, LAMBDA e : e.partition_name # entry.partition_name), entry)

\* build_ext4_image_best_effort: the result, the output files it leaves, where the
\* raw image is and how the conversion to sparse went
BuildExt4ImageBestEffort(out, output_sparse, builder, img2simg) ==
  LET out1   == IF builder # "ok" THEN out
                ELSE IF output_sparse THEN [out EXCEPT !.raw_img = TRUE]
                ELSE [out EXCEPT !.patched = "raw"]
      exists == IF output_sparse THEN out1.raw_img ELSE out1.patched # "absent"
      raw_at == IF output_sparse THEN "patched_raw" ELSE "patched"
  IN  IF builder \in {"missing", "fail"}
      THEN [res |-> PtError(IF builder = "missing" THEN "no_ext4_tool"
                            ELSE "make_ext4fs_failed"),
            out |-> out, raw_at |-> "none", conv_out |-> "none"]
      ELSE IF ~exists
      THEN [res |-> PtError("ext4_no_output"), out |-> out1, raw_at |-> "none",
            conv_out |-> "none"]
      ELSE IF output_sparse /\ img2simg = "ok"
      THEN [res |-> PtOk("built", "patched"),
            out |-> [out1 EXCEPT !.raw_img = FALSE, !.patched = "sparse"],
            raw_at |-> raw_at, conv_out |-> "ok"]
      ELSE [res |-> PtOk("built", raw_at), out |-> out1, raw_at |-> raw_at,
            conv_out |-> IF output_sparse THEN img2simg ELSE "none"]

\* the tail of repack_partition_image: the output check and the conversion to
\* <partition>_patched_sparse.img
FinishRepack(out, output_sparse, img2simg) ==
  IF out.patched = "absent"
  THEN [res |-> PtError("no_output_image"), out |-> out, conv |-> "none"]
  ELSE IF output_sparse /\ img2simg = "ok"
  THEN [res |-> PtOk("repacked", "patched_sparse"),
        out |-> [out EXCEPT !.patched = "absent",
                            !.sparse_img = IF out.patched = "raw" THEN "sparse"
                                           ELSE "resparsed"],
        conv |-> "ok"]
  ELSE [res |-> PtOk("repacked", "patched"), out |-> out,
        conv |-> IF output_sparse THEN img2simg ELSE "none"]

PartInit ==
  /\ \/ pt_img = NoInput
     \/ \E n \in PartNames, s \in BOOLEAN, fs \in FsTypes \cup {"unknown"} :
          pt_img = [exists |-> TRUE, name |-> n, sparse |-> s, fs |-> fs]
  /\ \/ pt_legacy = NoLegacy
     \/ \E n \in PartNames, fs \in FsTypes :
          pt_legacy = [present |-> TRUE, partition_name |-> n, fs_type |-> fs]
  /\ pt_src = [n \in PartNames |-> NoDir]
  /\ pt_meta = [n \in PartNames |-> NoRecord]
  /\ pt_index = <<>>
  /\ pt_out = [n \in PartNames |-> NoOutputs]
  /\ pt_pc = "idle"
  /\ pt_op = "none"
  /\ pt_arg = NoPartArg
  /\ pt_result = PtNone
  /\ pt_run = NoPartRun
  /\ pt_before = [meta |-> pt_meta, index |-> pt_index, out |-> pt_out]
  /\ ra_left = <<>>
  /\ ra_results = <<>>
  /\ ra_sparse = FALSE
  /\ ra_cancel = FALSE

PtIdle ==
  /\ pt_img = NoInput
  /\ pt_legacy = NoLegacy
  /\ pt_src = [n \in PartNames |-> NoDir]
  /\ pt_meta = [n \in PartNames |-> NoRecord]
  /\ pt_index = <<>>
  /\ pt_out = [n \in PartNames |-> NoOutputs]
  /\ pt_pc = "idle"
  /\ pt_op = "none"
  /\ pt_arg = NoPartArg
  /\ pt_result = PtNone
  /\ pt_run = NoPartRun
  /\ pt_before = [meta |-> pt_meta, index |-> pt_index, out |-> pt_out]
  /\ ra_left = <<>>
  /\ ra_results = <<>>
  /\ ra_sparse = FALSE
  /\ ra_cancel = FALSE

ExtractPartitionImage ==
  /\ pt_pc = "idle"
  /\ IF ~pt_img.exists
     THEN /\ pt_result' = PtError("no_image")
          /\ pt_run' = NoPartRun
          /\ UNCHANGED <<pt_src, pt_meta, pt_index>>
     ELSE \E simg2img \in (IF pt_img.sparse THEN ConverterRuns ELSE {"missing"}) :
          LET p       == pt_img.name
              made    == [pt_src EXCEPT ![p] = [@ EXCEPT !.exists = TRUE]]
              conv_in == IF pt_img.sparse THEN simg2img ELSE "none"
              fs_type == DetectFsType(pt_img.fs)
          IN  IF pt_img.sparse /\ simg2img # "ok"
              THEN /\ pt_result' = PtError(IF simg2img = "missing" THEN "no_simg2img"
                                           ELSE "simg2img_failed")
                   /\ pt_run' = [NoPartRun EXCEPT !.conv_in = conv_in]
                   /\ pt_src' = made
                   /\ UNCHANGED <<pt_meta, pt_index>>
              ELSE IF fs_type = "unknown"
              THEN /\ pt_result' = PtError("unknown_fs")
                   /\ pt_run' = [NoPartRun EXCEPT !.conv_in = conv_in, !.detect_on = "raw"]
                   /\ pt_src' = made
                   /\ UNCHANGED <<pt_meta, pt_index>>
              ELSE \E tool_present \in BOOLEAN :
                   IF ~tool_present
                   THEN /\ pt_result' = PtError("no_extractor")
                        /\ pt_run' = [NoPartRun EXCEPT !.conv_in = conv_in,
                                                       !.detect_on = "raw"]
                        /\ pt_src' = made
                        /\ UNCHANGED <<pt_meta, pt_index>>
                   ELSE \E run \in ExtractorRuns :
                        \E retry \in (IF fs_type = "erofs" /\ ~HasEntries(Extracted(made[p], run))
                                      THEN ExtractorRuns ELSE {run}) :
                        LET dir1 == Extracted(made[p], run)
                            dir  == IF fs_type = "erofs" /\ ~HasEntries(dir1)
                                    THEN Extracted(dir1, retry) ELSE dir1
                            rec  == [present |-> TRUE, fs_type |-> fs_type,
                                     was_sparse |-> pt_img.sparse]
                            ent  == [partition_name |-> p, fs_type |-> fs_type,
                                     was_sparse |-> pt_img.sparse]
                        IN  /\ pt_src' = [pt_src EXCEPT ![p] = dir]
                            /\ pt_run' = [NoPartRun EXCEPT !.conv_in = conv_in,
                                                           !.detect_on = "raw",
                                                           !.extractor = "raw",
                                                           !.rc = retry.rc,
                                                           !.calls = IF fs_type = "erofs"
                                                                        /\ ~HasEntries(dir1)
                                                                     THEN 2 ELSE 1,
                                                           !.first_ends = run.ends,
                                                           !.ends = retry.ends,
                                                           !.wrote = HasEntries(run) \/ HasEntries(retry)]
                            /\ IF ~HasEntries(dir)
                               THEN /\ pt_result' = PtError("extractor_no_output")
                                    /\ UNCHANGED <<pt_meta, pt_index>>
                               ELSE IF ~ValidateExtractOutput(dir)
                               THEN /\ pt_result' = PtError("validation")
                                    /\ UNCHANGED <<pt_meta, pt_index>>
                               ELSE /\ pt_result' = PtOk("extracted", "source")
                                    /\ pt_meta' = [pt_meta EXCEPT ![p] = rec]
                                    /\ pt_index' = UpdateIndex(pt_index, ent)
  /\ pt_pc' = "done"
  /\ pt_op' = "extract"
  /\ pt_arg' = [name |-> pt_img.name, sparse |-> FALSE]
  /\ pt_before' = [meta |-> pt_meta, index |-> pt_index, out |-> pt_out]
  /\ PtFrame
  /\ UNCHANGED <<pt_img, pt_legacy, pt_out>>

\* the body of repack_partition_image for one partition name
RepackOne(partition_name, output_sparse) ==
  /\ pt_arg' = [name |-> partition_name, sparse |-> output_sparse]
  /\ IF partition_name = ""
     THEN /\ pt_result' = PtError("no_partition_name")
          /\ pt_run' = NoPartRun
          /\ UNCHANGED pt_out
     ELSE LET p       == partition_name
              own     == pt_meta[p].present
              fs_type == IF own THEN pt_meta[p].fs_type ELSE pt_legacy.fs_type
          IN  IF (~own /\ ~pt_legacy.present) \/ ~pt_src[p].exists
                 \/ fs_type \notin FsTypes
              THEN /\ pt_result' = PtError(IF ~own /\ ~pt_legacy.present
                                           THEN "no_metadata"
                                           ELSE IF ~pt_src[p].exists THEN "no_source"
                                           ELSE "unsupported_fs")
                   /\ pt_run' = NoPartRun
                   /\ UNCHANGED pt_out
              ELSE \E builder \in BuilderRuns, img2simg_present \in BOOLEAN :
                   \E conv1 \in (IF img2simg_present /\ output_sparse /\ fs_type = "ext4"
                                 THEN {"fail", "ok"} ELSE {"missing"}),
                      conv2 \in (IF img2simg_present /\ output_sparse
                                 THEN {"fail", "ok"} ELSE {"missing"}) :
                   LET built == IF fs_type = "ext4"
                                THEN BuildExt4ImageBestEffort(pt_out[p], output_sparse,
                                                              builder, conv1)
                                ELSE IF builder \in {"missing", "fail"}
                                THEN [res |-> PtError(IF builder = "missing"
                                                      THEN "no_mkfs_erofs"
                                                      ELSE "mkfs_erofs_failed"),
                                      out |-> pt_out[p], raw_at |-> "none",
                                      conv_out |-> "none"]
                                ELSE [res |-> PtOk("built", "patched"),
                                      out |-> IF builder = "ok"
                                              THEN [pt_out[p] EXCEPT !.patched = "raw"]
                                              ELSE pt_out[p],
                                      raw_at |-> IF builder = "ok" THEN "patched"
                                                 ELSE "none",
                                      conv_out |-> "none"]
                       fin   == FinishRepack(built.out, output_sparse, conv2)
                       ran   == IF builder = "missing" THEN "none" ELSE "ran"
                   IN  IF ~built.res.ok
                       THEN /\ pt_result' = built.res
                            /\ pt_out' = [pt_out EXCEPT ![p] = built.out]
                            /\ pt_run' = [NoPartRun EXCEPT !.builder = ran]
                       ELSE /\ pt_result' = fin.res
                            /\ pt_out' = [pt_out EXCEPT ![p] = fin.out]
                            /\ pt_run' = [NoPartRun EXCEPT
                                            !.builder = ran,
                                            !.raw_at = built.raw_at,
                                            !.conv_out = IF fs_type = "ext4"
                                                         THEN built.conv_out
                                                         ELSE fin.conv]

RepackPartitionImage ==
  /\ pt_pc = "idle"
  /\ \E partition_name \in PartNames \cup {""}, output_sparse \in BOOLEAN :
       RepackOne(partition_name, output_sparse)
  /\ pt_pc' = "done"
  /\ pt_op' = "repack"
  /\ pt_before' = [meta |-> pt_meta, index |-> pt_index, out |-> pt_out]
  /\ PtFrame
  /\ UNCHANGED <<pt_img, pt_legacy, pt_src, pt_meta, pt_index>>

\* the user empties or removes out/Source/<partition>/ between two tasks
CleanSource ==
  /\ pt_pc = "idle"
  /\ \E p \in PartNames, dir \in {NoDir, EmptyDir} :
       /\ pt_src[p].exists
       /\ pt_src[p] # dir
       /\ pt_src' = [pt_src EXCEPT ![p] = dir]
  /\ PtFrame
  /\ UNCHANGED <<pt_img, pt_legacy, pt_meta, pt_index, pt_out, pt_pc, pt_op, pt_arg,
                 pt_result, pt_run, pt_before>>

\* the task's result is delivered; the next task may start
PartTaskFinished ==
  /\ pt_pc = "done"
  /\ pt_pc' = "idle"
  /\ pt_op' = "none"
  /\ pt_arg' = NoPartArg
  /\ pt_result' = PtNone
  /\ pt_run' = NoPartRun
  /\ pt_before' = [meta |-> pt_meta, index |-> pt_index, out |-> pt_out]
  /\ ra_left' = <<>>
  /\ ra_results' = <<>>
  /\ ra_sparse' = FALSE
  /\ ra_cancel' = FALSE
  /\ RaFrame
  /\ UNCHANGED <<pt_img, pt_legacy, pt_src, pt_meta, pt_index, pt_out>>

\* the next extract_partition_image is given another image: the img_path
\* argument, or a new input file of the project
ImportImage ==
  /\ pt_pc = "idle"
  /\ \E n \in PartNames, s \in BOOLEAN, fs \in FsTypes \cup {"unknown"} :
       /\ pt_img' = [exists |-> TRUE, name |-> n, sparse |-> s, fs |-> fs]
       /\ pt_img' # pt_img
  /\ PtFrame
  /\ UNCHANGED <<pt_legacy, pt_src, pt_meta, pt_index, pt_out, pt_pc, pt_op, pt_arg,
                 pt_result, pt_run, pt_before>>

(***************************************************************************)
(* partition_image_engine.py: repack_all_partitions, one step per item of  *)
(* the loop over get_partition_list                                        *)
(***************************************************************************)
RepackAllFinalIgnoreFailures(results) == PtOk("repacked_all", "out_image")

\* the summary after the loop: an error as soon as one item failed
RepackAllFinal(results) ==
  LET failed == {i \in 1..Len(results) : ~results[i].ok}
  IN  IF failed # {} THEN PtError("repack_all_failed")
      ELSE PtOk("repacked_all", "out_image")

\* the task starts: the list is read from partition_index.json
RepackAllPartitions ==
  /\ pt_pc = "idle"
  /\ \E output_sparse \in BOOLEAN :
       /\ ra_sparse' = output_sparse
       /\ pt_arg' = [name |-> "", sparse |-> output_sparse]
  /\ IF pt_index = <<>>
     THEN /\ pt_result' = PtError("no_partitions")
          /\ pt_pc' = "done"
     ELSE /\ pt_result' = PtNone
          /\ pt_pc' = "ra_loop"
  /\ ra_left' = pt_index
  /\ ra_results' = <<>>
  /\ ra_cancel' = FALSE
  /\ pt_op' = "repack_all"
  /\ pt_run' = NoPartRun
  /\ pt_before' = [meta |-> pt_meta, index |-> pt_index, out |-> pt_out]
  /\ RaFrame
  /\ UNCHANGED <<pt_img, pt_legacy, pt_src, pt_meta, pt_index, pt_out>>

\* one pass of the loop: repack_partition_image on the next entry, whatever the
\* earlier results and whatever the state of the cancel token
RepackAllItem ==
  /\ pt_pc = "ra_loop"
  /\ ra_left # <<>>
  /\ IF Head(ra_left).partition_name = ""
     THEN \* "if not pname: continue"
          /\ ra_results' = ra_results
          /\ UNCHANGED <<pt_out, pt_result, pt_arg, pt_run>>
     ELSE /\ RepackOne(Head(ra_left).partition_name, ra_sparse)
          /\ ra_results' = Append(ra_results, [name      |-> Head(ra_left).partition_name,
                                               ok        |-> pt_result'.ok,
                                               cancelled |-> ra_cancel])
  /\ ra_left' = Tail(ra_left)
  /\ RaFrame
  /\ UNCHANGED <<pt_img, pt_legacy, pt_src, pt_meta, pt_index, pt_pc, pt_op, pt_before,
                 ra_sparse, ra_cancel>>

\* the loop is over: the summary is returned
RepackAllReturn ==
  /\ pt_pc = "ra_loop"
  /\ ra_left = <<>>
  /\ pt_result' = RepackAllFinal(ra_results)
  /\ pt_pc' = "done"
  /\ RaFrame
  /\ UNCHANGED <<pt_img, pt_legacy, pt_src, pt_meta, pt_index, pt_out, pt_op, pt_arg,
                 pt_run, pt_before, ra_left, ra_results, ra_sparse, ra_cancel>>

\* TaskManager.cancel sets the Event of the running repack_all_partitions task
CancelRepackAll ==
  /\ pt_pc = "ra_loop"
  /\ ~ra_cancel
  /\ ra_cancel' = TRUE
  /\ RaFrame
  /\ UNCHANGED <<ptVars, ra_left, ra_results, ra_sparse>>

(***************************************************************************)
(* Slot resolver: filter_partitions_by_slot (rockchip_update_engine.py)    *)
(* and scan_vbmeta_targets (avb_manager.py) on the same names.             *)
(* A partition name is a character sequence: a stem kept as one token,     *)
(* then single characters.                                                 *)
(***************************************************************************)
NameStems == {"system", "vendor"}
TailChars == {"_", "a", "b", "A"}

SeqsUpTo(S, n) == UNION {[1..k -> S] : k \in 0..n}

PartitionNames == {<<st>> \o t : st \in NameStems, t \in SeqsUpTo(TailChars, MaxTailLen)}

\* str.lower(), one character at a time
LowerChar(c) ==
  CASE c = "A" -> "a"
    [] c = "B" -> "b"
    [] OTHER   -> c

Lower(name) == [i \in 1..Len(name) |-> LowerChar(name[i])]

SUFFIX_A == <<"_", "a">>
SUFFIX_B == <<"_", "b">>

\* name[:-2]
DropLast2(name) == SubSeq(name, 1, Len(name) - 2)

GetBaseName(name) ==
  LET lower == Lower(name)
  IN  IF EndsWith(lower, SUFFIX_A) THEN DropLast2(lower)
      ELSE IF EndsWith(lower, SUFFIX_B) THEN DropLast2(lower)
      ELSE lower

\* has_slot_a / has_slot_b / base_names of filter_partitions_by_slot
HasSlotA(partitions) ==
  {DropLast2(Lower(partitions[i])) :
     i \in {j \in 1..Len(partitions) : EndsWith(Lower(partitions[j]), SUFFIX_A)}}

HasSlotB(partitions) ==
  {DropLast2(Lower(partitions[i])) :
     i \in {j \in 1..Len(partitions) :
              /\ ~EndsWith(Lower(partitions[j]), SUFFIX_A)
              /\ EndsWith(Lower(partitions[j]), SUFFIX_B)}}

KeepBothAlways(name, base, has_slot_a, has_slot_b) == TRUE

KeepBoth(name, base, has_slot_a, has_slot_b) ==
  IF EndsWith(name, SUFFIX_A) \/ EndsWith(name, SUFFIX_B) THEN TRUE
  ELSE base \notin has_slot_a /\ base \notin has_slot_b

KeepAOrB(name, base, has_slot_a, has_slot_b) ==
  IF EndsWith(name, SUFFIX_A) THEN TRUE
  ELSE base \notin has_slot_a

KeepA(name, base, has_slot_a, has_slot_b) ==
  IF EndsWith(name, SUFFIX_A) THEN TRUE
  ELSE IF ~EndsWith(name, SUFFIX_B) THEN base \notin has_slot_a
  ELSE FALSE

KeepB(name, base, has_slot_a, has_slot_b) ==
  IF EndsWith(name, SUFFIX_B) THEN TRUE
  ELSE IF ~EndsWith(name, SUFFIX_A) THEN base \notin has_slot_b
  ELSE FALSE

KeepAutoPreferB(name, base, has_slot_a, has_slot_b) ==
  IF EndsWith(name, SUFFIX_B) THEN TRUE
  ELSE IF EndsWith(name, SUFFIX_A) THEN base \notin has_slot_b
  ELSE base \notin has_slot_a /\ base \notin has_slot_b

KeepAuto(name, base, has_slot_a, has_slot_b) ==
  IF EndsWith(name, SUFFIX_A) THEN TRUE
  ELSE IF EndsWith(name, SUFFIX_B) THEN base \notin has_slot_a
  ELSE base \notin has_slot_a /\ base \notin has_slot_b

FilterPartitionsBySlot(partitions, mode) ==
  LET has_slot_a == HasSlotA(partitions)
      has_slot_b == HasSlotB(partitions)
      Keep(p) ==
        LET name == Lower(p)
            base == GetBaseName(name)
        IN  CASE mode = "both" -> KeepBoth(name, base, has_slot_a, has_slot_b)
              [] mode = "A"    -> KeepA(name, base, has_slot_a, has_slot_b)
              [] mode = "B"    -> KeepB(name, base, has_slot_a, has_slot_b)
              [] OTHER         -> KeepAuto(name, base, has_slot_a, has_slot_b)
  IN  SelectSeq(partitions, Keep)

\* the partition's verified-boot image: vbmeta_<name>.img, as a stem
VbmetaOf(name) == <<"vbmeta", "_">> \o name
PartitionOf(vb) == SubSeq(vb, 3, Len(vb))

\* the name sets a partitions directory can hold: no two names that differ
\* only in letter case
DistinctIgnoringCase(names) ==
  \A i, j \in 1..Len(names) : Lower(names[i]) = Lower(names[j]) => i = j

NameLists ==
  {names \in SeqsUpTo(PartitionNames, MaxSlotNames) :
     names # <<>> /\ DistinctIgnoringCase(names)}

SlotInit ==
  /\ sl_names \in NameLists
  /\ sl_mode \in SlotModes
  /\ sl_op = "none"
  /\ sl_result = <<>>

SlIdle ==
  /\ sl_names = <<>>
  /\ sl_mode = "auto"
  /\ sl_op = "none"
  /\ sl_result = <<>>

\* filter_partitions_by_slot(all_partitions, slot_mode)
RunFilter ==
  /\ sl_op = "none"
  /\ sl_op' = "filter"
  /\ sl_result' = FilterPartitionsBySlot(sl_names, sl_mode)
  /\ UNCHANGED <<sl_names, sl_mode>>
  /\ SlFrame

\* scan_vbmeta_targets over the vbmeta images of the same partitions, the
\* candidates dict in the order the names were found
RunScan ==
  /\ sl_op = "none"
  /\ sl_op' = "scan"
  /\ \E found \in {ScanVbmetaTargets([i \in 1..Len(sl_names) |-> VbmetaOf(sl_names[i])],
                                      sl_mode)} :
       sl_result' = [i \in 1..Len(found) |-> PartitionOf(found[i])]
  /\ UNCHANGED <<sl_names, sl_mode>>
  /\ SlFrame

(***************************************************************************)
(* Base and mount names derived from a partition name: slot_utils.py,      *)
(* normalize_mount_point (partition_image_engine.py) and the base_name of  *)
(* unpack_update_img (rockchip_update_engine.py).  Names are character     *)
(* sequences; "system" and "ext" stand for runs of other lower-case        *)
(* letters.                                                                *)
(***************************************************************************)
NameTokens == {"system", "ext", "_", "a", "b", "A", "/"}

GivenNames == SeqsUpTo(NameTokens, MaxNameLen) \ {<<>>}

\* the partitions unpack_update_img extracts a filesystem from
FS_PARTITIONS == {<<"system">>, <<"vendor">>, <<"product">>, <<"odm">>,
                  <<"system", "_", "ext">>}

RECURSIVE LStrip(_, _)
\* str.lstrip(c)
LStrip(name, c) ==
  IF name # <<>> /\ Head(name) = c THEN LStrip(Tail(name), c) ELSE name

RECURSIVE Replace(_, _)
\* str.replace(old, ""): every non-overlapping occurrence, left to right
Replace(name, old) ==
  IF Len(name) < Len(old) THEN name
  ELSE IF SubSeq(name, 1, Len(old)) = old
       THEN Replace(SubSeq(name, Len(old) + 1, Len(name)), old)
       ELSE <<Head(name)>> \o Replace(Tail(name), old)

StripSlotSuffix(name) ==
  IF EndsWith(name, SUFFIX_A) \/ EndsWith(name, SUFFIX_B) THEN DropLast2(name)
  ELSE name

NormalizeMountBase(name) == StripSlotSuffix(LStrip(name, "/"))

GetMountPoint(partition_name) == <<"/">> \o NormalizeMountBase(partition_name)

NormalizeMountPoint(partition_name) ==
  LET base == Lower(partition_name)
  IN  IF EndsWith(base, SUFFIX_A) \/ EndsWith(base, SUFFIX_B) THEN DropLast2(base)
      ELSE base

\* base_name of unpack_update_img
UpdateBaseName(pname) == Replace(Replace(Lower(pname), SUFFIX_A), SUFFIX_B)

NameInit ==
  /\ nm_name \in GivenNames
  /\ nm_op = "none"
  /\ nm_result = <<>>
  /\ nm_selected = FALSE

NmIdle ==
  /\ nm_name = <<>>
  /\ nm_op = "none"
  /\ nm_result = <<>>
  /\ nm_selected = FALSE

Derive(o, result, selected) ==
  /\ nm_op = "none"
  /\ nm_op' = o
  /\ nm_result' = result
  /\ nm_selected' = selected
  /\ UNCHANGED nm_name
  /\ NmFrame

CallStripSlotSuffix == Derive("strip_slot_suffix", StripSlotSuffix(nm_name), FALSE)

CallNormalizeMountBase == Derive("normalize_mount_base", NormalizeMountBase(nm_name), FALSE)

CallGetMountPoint == Derive("get_mount_point", GetMountPoint(nm_name), FALSE)

CallNormalizeMountPoint ==
  Derive("normalize_mount_point", NormalizeMountPoint(nm_name), FALSE)

\* one iteration of the filesystem loops of unpack_update_img: pname is a stem
\* of a *.img file, so it holds no path separator
SelectFsPartition ==
  /\ "/" \notin SeqToSet(nm_name)
  /\ Derive("unpack_update_img", UpdateBaseName(nm_name),
            UpdateBaseName(nm_name) \in FS_PARTITIONS)

(***************************************************************************)
(* Dirty tracker (dirty_tracker.py)                                        *)
(***************************************************************************)
DtParts == {"system", "vendor"}

\* the regular files that can exist below out/Source/: the tree of system is
\* populated and edited, the directory of vendor stays empty
TreePaths == {<<"system", i>> : i \in 1..MaxTreeFiles}

NoSrcFile == [present |-> FALSE, st_size |-> 0, st_mtime_ns |-> 0]
SrcFiles == [present : {TRUE}, st_size : 1..MaxFileSize, st_mtime_ns : 1..MaxMtime]

RECURSIVE TotalSize(_, _)
\* total_size += stat.st_size over the files found
TotalSize(files, found) ==
  IF found = {} THEN 0
  ELSE LET f == CHOOSE g \in found : TRUE
       IN  files[f].st_size + TotalSize(files, found \ {f})

RECURSIVE NewestMtime(_, _)
\* newest_mtime_ns = max(newest_mtime_ns, stat.st_mtime_ns) over the files found
NewestMtime(files, found) ==
  IF found = {} THEN 0
  ELSE LET f == CHOOSE g \in found : TRUE
           m == NewestMtime(files, found \ {f})
       IN  IF files[f].st_mtime_ns > m THEN files[f].st_mtime_ns ELSE m

NoSnapshot == [present |-> FALSE, file_count |-> 0, total_size |-> 0, newest_mtime_ns |-> 0]

\* compute_source_snapshot(out/Source/<part>): a missing directory counts as an
\* empty one
ComputeSourceSnapshot(files, part) ==
  LET found == {f \in TreePaths : f[1] = part /\ files[f].present}
  IN  [present         |-> TRUE,
       file_count      |-> Cardinality(found),
       total_size      |-> TotalSize(files, found),
       newest_mtime_ns |-> NewestMtime(files, found)]

\* a JSON file of the project: missing, unreadable, or holding a dict
NoDict(none) == [state |-> "missing", dict |-> [q \in DtParts |-> none]]
BadDict(none) == [state |-> "corrupt", dict |-> [q \in DtParts |-> none]]
SaveDict(d) == [state |-> "ok", dict |-> d]

\* load_dirty: {} unless the file exists and parses; "none" marks a missing key
LoadDirty(file) == IF file.state = "ok" THEN file.dict ELSE [q \in DtParts |-> "none"]

\* load_snapshots
LoadSnapshots(file) ==
  IF file.state = "ok" THEN file.dict ELSE [q \in DtParts |-> NoSnapshot]

FlagOf(is_dirty) == IF is_dirty THEN "dirty" ELSE "clean"

\* set_dirty: load, assign, save
SetDirtyIn(file, part, is_dirty) ==
  SaveDict([LoadDirty(file) EXCEPT ![part] = FlagOf(is_dirty)])

IsDirtyDefaultClean(file, part) == LoadDirty(file)[part] = "dirty"

\* is_dirty: flags.get(partition_name, True)
IsDirty(file, part) == LoadDirty(file)[part] # "clean"

CheckPartitionChangedNoMtime(snaps, files, part) ==
  LET saved   == LoadSnapshots(snaps)[part]
      current == ComputeSourceSnapshot(files, part)
  IN  IF ~saved.present THEN TRUE
      ELSE \/ current.file_count # saved.file_count
           \/ current.total_size # saved.total_size

CheckPartitionChanged(snaps, files, part) ==
  LET saved   == LoadSnapshots(snaps)[part]
      current == ComputeSourceSnapshot(files, part)
  IN  IF ~saved.present THEN TRUE
      ELSE \/ current.file_count # saved.file_count
           \/ current.total_size # saved.total_size
           \/ current.newest_mtime_ns # saved.newest_mtime_ns

\* save_partition_snapshot: load, assign, save
SaveSnapshotIn(snaps, files, part) ==
  SaveDict([LoadSnapshots(snaps) EXCEPT ![part] = ComputeSourceSnapshot(files, part)])

AutoDetectResetsFlag(file, snaps, files, part) ==
  IF CheckPartitionChanged(snaps, files, part)
  THEN [file |-> SetDirtyIn(file, part, TRUE), ret |-> TRUE]
  ELSE [file |-> SetDirtyIn(file, part, FALSE), ret |-> FALSE]

\* auto_detect_dirty: the dirty.json it leaves and the value it returns
AutoDetect(file, snaps, files, part) ==
  IF CheckPartitionChanged(snaps, files, part)
  THEN [file |-> SetDirtyIn(file, part, TRUE), ret |-> TRUE]
  ELSE [file |-> file, ret |-> IsDirty(file, part)]

DtLast(part, ret) == [part |-> part, ret |-> ret]
NoCall == DtLast("none", FALSE)

DirtyInit ==
  /\ dt_files = [f \in TreePaths |-> NoSrcFile]
  /\ dt_dirty = NoDict("none")
  /\ dt_snap = NoDict(NoSnapshot)
  /\ dt_last = NoCall
  /\ dt_wrote = [q \in DtParts |-> "none"]

DtIdle == DirtyInit

SetDirty ==
  \E part \in DtParts, is_dirty \in BOOLEAN :
    /\ dt_dirty' = SetDirtyIn(dt_dirty, part, is_dirty)
    /\ dt_wrote' = [dt_wrote EXCEPT ![part] = FlagOf(is_dirty)]
    /\ dt_last' = NoCall
    /\ UNCHANGED <<dt_files, dt_snap>>
    /\ DtFrame

MarkAllClean ==
  \E names \in SUBSET DtParts :
    /\ dt_dirty' = SaveDict([q \in DtParts |->
                               IF q \in names THEN "clean" ELSE LoadDirty(dt_dirty)[q]])
    /\ dt_wrote' = [q \in DtParts |-> IF q \in names THEN "clean" ELSE dt_wrote[q]]
    /\ dt_last' = NoCall
    /\ UNCHANGED <<dt_files, dt_snap>>
    /\ DtFrame

MarkAllDirty ==
  LET flags   == LoadDirty(dt_dirty)
      tracked == {q \in DtParts : flags[q] # "none"}
  IN  /\ dt_dirty' = SaveDict([q \in DtParts |-> IF q \in tracked THEN "dirty" ELSE "none"])
      /\ dt_wrote' = [q \in DtParts |-> IF q \in tracked THEN "dirty" ELSE dt_wrote[q]]
      /\ dt_last' = NoCall
      /\ UNCHANGED <<dt_files, dt_snap>>
      /\ DtFrame

SavePartitionSnapshot ==
  \E part \in DtParts :
    /\ dt_snap' = SaveSnapshotIn(dt_snap, dt_files, part)
    /\ dt_last' = NoCall
    /\ UNCHANGED <<dt_files, dt_dirty, dt_wrote>>
    /\ DtFrame

MarkCleanAfterExtract ==
  \E part \in DtParts :
    /\ dt_snap' = SaveSnapshotIn(dt_snap, dt_files, part)
    /\ dt_dirty' = SetDirtyIn(dt_dirty, part, FALSE)
    /\ dt_wrote' = [dt_wrote EXCEPT ![part] = "clean"]
    /\ dt_last' = NoCall
    /\ UNCHANGED dt_files
    /\ DtFrame

AutoDetectDirty ==
  \E part \in DtParts :
    LET r == AutoDetect(dt_dirty, dt_snap, dt_files, part)
    IN  /\ dt_dirty' = r.file
        /\ dt_wrote' = IF CheckPartitionChanged(dt_snap, dt_files, part)
                       THEN [dt_wrote EXCEPT ![part] = "dirty"] ELSE dt_wrote
        /\ dt_last' = DtLast(part, r.ret)
        /\ UNCHANGED <<dt_files, dt_snap>>
        /\ DtFrame

\* the user (or a tool) creates, rewrites, touches or restores a source file
WriteSourceFile ==
  \E f \in TreePaths, new \in SrcFiles :
    /\ dt_files[f] # new
    /\ dt_files' = [dt_files EXCEPT ![f] = new]
    /\ dt_last' = NoCall
    /\ UNCHANGED <<dt_dirty, dt_snap, dt_wrote>>
    /\ DtFrame

DeleteSourceFile ==
  \E f \in TreePaths :
    /\ dt_files[f].present
    /\ dt_files' = [dt_files EXCEPT ![f] = NoSrcFile]
    /\ dt_last' = NoCall
    /\ UNCHANGED <<dt_dirty, dt_snap, dt_wrote>>
    /\ DtFrame

\* dirty.json or source_snapshot.json is deleted, or left unreadable
LoseJsonFile ==
  /\ \/ /\ dt_dirty.state = "ok"
        /\ dt_dirty' \in {NoDict("none"), BadDict("none")}
        /\ UNCHANGED dt_snap
     \/ /\ dt_snap.state = "ok"
        /\ dt_snap' \in {NoDict(NoSnapshot), BadDict(NoSnapshot)}
        /\ UNCHANGED dt_dirty
  /\ dt_last' = NoCall
  /\ UNCHANGED <<dt_files, dt_wrote>>
  /\ DtFrame

(***************************************************************************)
(* avb_manager.py: patch_fstab_line and the per-line step of               *)
(* patch_fstab_file. A line is a sequence of tokens: a word (a run of      *)
(* word characters, kept whole), or one separator character.               *)
(***************************************************************************)
FstabKeywords ==
  {"verify", "avb", "avb_keys", "verity", "support_scfs", "forceencrypt",
   "forcefdeorfbe", "fileencryption", "metadata_encryption"}

\* the tokens of the input lines: the keywords, another mount option, and the
\* separators of a line
FstabTokens == FstabKeywords \cup {"ro", "=", ",", " ", "#"}

FstabLines == SeqsUpTo(FstabTokens, MaxLineLen)

\* \w characters only: two such tokens side by side have no \b between them
IsWord(t) == t \notin {"=", ",", " ", "#"}

\* \b in front of the word s[i], and behind it
BoundaryBefore(s, i) == i = 1 \/ ~IsWord(s[i - 1])
BoundaryAfter(s, i) == i = Len(s) \/ ~IsWord(s[i + 1])

\* [^,\s]* from position j: the index of the last token it takes (j - 1 for none)
RECURSIVE RunEnd(_, _)

RunEnd(s, j) ==
  IF j > Len(s) \/ s[j] \in {",", " "} THEN j - 1 ELSE RunEnd(s, j + 1)

\* FSTAB_PATTERNS in the order of the dict. kind "word" is \bkey\b, kind
\* "assign" is \bkey=[^,\s]*, kind "avb" is \bavb[=,]?[^,\s]*
FSTAB_PATTERNS ==
  << [kind |-> "word",   key |-> "verify",              repl |-> <<>>],
     [kind |-> "avb",    key |-> "avb",                 repl |-> <<>>],
     [kind |-> "assign", key |-> "avb_keys",            repl |-> <<>>],
     [kind |-> "word",   key |-> "verity",              repl |-> <<>>],
     [kind |-> "word",   key |-> "support_scfs",        repl |-> <<>>],
     [kind |-> "assign", key |-> "forceencrypt",        repl |-> <<"encryptable", "=", "footer">>],
     [kind |-> "assign", key |-> "forcefdeorfbe",       repl |-> <<"encryptable", "=", "footer">>],
     [kind |-> "assign", key |-> "fileencryption",      repl |-> <<>>],
     [kind |-> "assign", key |-> "metadata_encryption", repl |-> <<>>] >>

\* the words that begin with the characters avb
StartsWithAvb(t) == t \in {"avb", "avb_keys"}

\* where the match of pattern p that starts at token i ends; 0 when there is none
MatchEnd(p, s, i) ==
  CASE p.kind = "word" ->
         IF s[i] = p.key /\ BoundaryBefore(s, i) /\ BoundaryAfter(s, i) THEN i ELSE 0
    [] p.kind = "assign" ->
         IF s[i] = p.key /\ BoundaryBefore(s, i) /\ i < Len(s) /\ s[i + 1] = "="
         THEN RunEnd(s, i + 2) ELSE 0
    [] OTHER ->
         IF StartsWithAvb(s[i]) /\ BoundaryBefore(s, i)
         THEN IF s[i] = "avb" /\ i < Len(s) /\ s[i + 1] \in {"=", ","}
              THEN RunEnd(s, i + 2)
              ELSE RunEnd(s, i + 1)
         ELSE 0

\* re.sub(pattern, replacement, s): every match, left to right, without overlap
RECURSIVE SubFrom(_, _, _)

SubFrom(p, s, i) ==
  IF i > Len(s) THEN <<>>
  ELSE \* the end of the match at i, evaluated once
       LET e == MatchEnd(p, s, i)
       IN  IF e = 0 THEN <<s[i]>> \o SubFrom(p, s, i + 1)
           ELSE p.repl \o SubFrom(p, s, e + 1)

RECURSIVE ApplyPatterns(_, _)

ApplyPatterns(s, k) ==
  IF k > Len(FSTAB_PATTERNS) THEN s
  ELSE ApplyPatterns(SubFrom(FSTAB_PATTERNS[k], s, 1), k + 1)

KeepAt(s, keep) == [i \in 1..Len(s) |-> IF i \in keep THEN <<s[i]>> ELSE <<>>]

\* the tokens of s at the positions of keep, in order
Pick(s, keep) == FlattenSeq(KeepAt(s, keep))

\* re.sub(r',{2,}', ',', s)
CollapseCommas(s) ==
  Pick(s, {i \in 1..Len(s) : ~(s[i] = "," /\ i > 1 /\ s[i - 1] = ",")})

\* re.sub(r',(\s|$)', r'\1', s)
DropCommaBeforeSpaceOrEnd(s) ==
  Pick(s, {i \in 1..Len(s) : ~(s[i] = "," /\ (i = Len(s) \/ s[i + 1] = " "))})

\* re.sub(r'\s+', ' ', s).strip()
CollapseSpaces(s) ==
  LET one == Pick(s, {i \in 1..Len(s) : ~(s[i] = " " /\ i > 1 /\ s[i - 1] = " ")})
  IN  Pick(one, {i \in 1..Len(one) : ~(one[i] = " " /\ i \in {1, Len(one)})})

\* patch_fstab_line: the patched line
PatchFstabLine(line) ==
  CollapseSpaces(DropCommaBeforeSpaceOrEnd(CollapseCommas(ApplyPatterns(line, 1))))

\* line.strip() starts with '#' or is empty
RECURSIVE IsCommentOrBlank(_)

IsCommentOrBlank(line) ==
  IF line = <<>> THEN TRUE
  ELSE IF Head(line) = " " THEN IsCommentOrBlank(Tail(line))
  ELSE Head(line) = "#"

\* what patch_fstab_file appends to patched_lines for one line of the file
PatchedLine(line) == IF IsCommentOrBlank(line) THEN line ELSE PatchFstabLine(line)

FstabLineInit ==
  /\ fl_line \in FstabLines
  /\ fl_op = "none"
  /\ fl_out = <<>>

FlIdle ==
  /\ fl_line = <<>>
  /\ fl_op = "none"
  /\ fl_out = <<>>

\* the loop body of patch_fstab_file on one line
PatchLine ==
  /\ fl_op = "none"
  /\ fl_op' = "patch"
  /\ fl_out' = PatchedLine(fl_line)
  /\ UNCHANGED fl_line
  /\ FlFrame

(***************************************************************************)
(* avb_manager.py: find_fstab_files and patch_fstab_file on the files of   *)
(* one searched directory. A file name is the sequence of its parts        *)
(* between the dots.                                                       *)
(***************************************************************************)
\* the fstab files an extracted partition holds
FstabNames == {<<"fstab">>, <<"fstab", "rk">>}

\* Path.with_suffix(path.suffix + '.bak')
BackupPath(name) == Append(name, "bak")

EtcNames == FstabNames \cup {BackupPath(n) : n \in FstabNames}

\* Path.suffix
Suffix(name) == IF Len(name) > 1 THEN name[Len(name)] ELSE ""

\* the lines of the fstab files: a mount line with a verify flag, a comment,
\* a mount line with nothing to patch
FstabFileLines == {<<"ro", ",", "verify">>, <<"#", "verify">>, <<"ro">>}

FstabContents == SeqsUpTo(FstabFileLines, MaxFileLines)

NoText == [exists |-> FALSE, lines |-> <<>>]
Text(lines) == [exists |-> TRUE, lines |-> lines]

\* glob("fstab.*") and glob("*fstab*") on a file name
GlobFstabDot(name) == name[1] = "fstab" /\ Len(name) > 1
GlobAnyFstab(name) == \E i \in 1..Len(name) : name[i] = "fstab"

\* the order in which glob lists the names of the directory
GlobOrders == {o \in [1..Cardinality(EtcNames) -> EtcNames] :
                 \A i, j \in 1..Cardinality(EtcNames) : i # j => o[i] # o[j]}

\* find_fstab_files: both patterns in turn, a path taken once, backups skipped
FindFstabFiles(dir, order) ==
  Dedupe(SelectSeq(order, LAMBDA n : dir[n].exists /\ GlobFstabDot(n)
                                      /\ Suffix(n) # "bak")
         \o SelectSeq(order, LAMBDA n : dir[n].exists /\ GlobAnyFstab(n)
                                         /\ Suffix(n) # "bak"))

\* the patched_lines of patch_fstab_file
PatchedLines(lines) == [i \in 1..Len(lines) |-> PatchedLine(lines[i])]

FstabFileInit ==
  /\ ff_dir \in {d \in [EtcNames -> {NoText} \cup {Text(c) : c \in FstabContents}] :
                   \A n \in EtcNames : Suffix(n) = "bak" => d[n] = NoText}
  /\ ff_orig = ff_dir
  /\ ff_todo = <<>>
  /\ ff_picked = {}
  /\ ff_result = NoResult

FfIdle ==
  /\ ff_dir = [n \in EtcNames |-> NoText]
  /\ ff_orig = ff_dir
  /\ ff_todo = <<>>
  /\ ff_picked = {}
  /\ ff_result = NoResult

\* disable_fstab_only lists the files to patch
ListFstabFiles ==
  /\ ff_todo = <<>>
  /\ \E order \in GlobOrders : ff_todo' = FindFstabFiles(ff_dir, order)
  /\ ff_todo' # <<>>
  /\ ff_picked' = ff_picked \cup {ff_todo'[i] : i \in 1..Len(ff_todo')}
  /\ ff_result' = NoResult
  /\ UNCHANGED <<ff_dir, ff_orig>>
  /\ FfFrame

BackUpAlways(dir, fstab_path) ==
  [dir EXCEPT ![BackupPath(fstab_path)] = dir[fstab_path]]

\* the backup step of patch_fstab_file: a copy, unless the backup exists
BackUp(dir, fstab_path) ==
  IF dir[BackupPath(fstab_path)].exists THEN dir
  ELSE [dir EXCEPT ![BackupPath(fstab_path)] = dir[fstab_path]]

\* patch_fstab_file on the next file of the list. Reading the file, copying it
\* and writing it can each raise, which ends the call with an error
PatchFstabFile ==
  /\ ff_todo # <<>>
  /\ \E ends \in {"read_raises", "copy_raises", "write_raises", "written"} :
       LET fstab_path  == Head(ff_todo)
           backup_path == BackupPath(fstab_path)
           backed_up   == BackUp(ff_dir, fstab_path)
       IN  IF ends = "read_raises" \/ ~ff_dir[fstab_path].exists
           THEN /\ ff_result' = TaskError("read")
                /\ UNCHANGED ff_dir
           ELSE IF ends = "copy_raises" /\ ~ff_dir[backup_path].exists
           THEN /\ ff_result' = TaskError("copy")
                /\ UNCHANGED ff_dir
           ELSE IF ends = "write_raises"
           THEN /\ ff_result' = TaskError("write")
                /\ ff_dir' = backed_up
           ELSE /\ ff_result' = TaskSuccess("Patched", <<fstab_path>>)
                /\ ff_dir' = [backed_up EXCEPT
                                ![fstab_path] = Text(PatchedLines(ff_dir[fstab_path].lines))]
  /\ ff_todo' = Tail(ff_todo)
  /\ UNCHANGED <<ff_orig, ff_picked>>
  /\ FfFrame

\* the cancel token is set: the loop of disable_fstab_only ends
StopPatching ==
  /\ ff_todo # <<>>
  /\ ff_todo' = <<>>
  /\ UNCHANGED <<ff_dir, ff_orig, ff_picked, ff_result>>
  /\ FfFrame

(***************************************************************************)
(* state_machine.py and task_manager.py: concurrent TaskManager.submit     *)
(* calls, the Worker each accepted call starts, and its completion         *)
(***************************************************************************)
\* the threads that call submit
Callers == {1, 2}

\* TaskType values the callers pass
TaskTypes == {"extract", "patch"}

\* how the task function ends: it returns a TaskResult that is ok or not, it
\* returns something that is no TaskResult, or it raises
FnOutcomes == {"result_ok", "result_failed", "other_value", "raises"}

NoCallState == [pc |-> "idle", task_type |-> "none", ret |-> 0]
NoWorker == [state |-> "none", ok |-> FALSE, emitted |-> FALSE]

\* StateMachine.can_start_task
CanStartTask(state) == state \in {"idle", "done", "error"}

StartTaskAllowedAlways(state) == TRUE

\* the test StateMachine.start_task makes under its lock
StartTaskAllowed(state) == state # "running"

WorkerRunNoCatch(outcome) ==
  [state |-> "ended", ok |-> outcome \in {"result_ok", "other_value"},
   emitted |-> outcome # "raises"]

\* Worker.run: the result it builds from the way the function ended, and the
\* finished signal it emits with it
WorkerRun(outcome) ==
  [state |-> "ended", ok |-> outcome \in {"result_ok", "other_value"}, emitted |-> TRUE]

\* the tasks between a successful start_task and their finish_task
ActiveTasks == {c \in Callers : tm_call[c].pc = "started" \/ tm_worker[c].state # "none"}

TaskInit ==
  /\ sm_state = "idle"
  /\ sm_current = "none"
  /\ tm_counter = 0
  /\ tm_call = [c \in Callers |-> NoCallState]
  /\ tm_worker = [c \in Callers |-> NoWorker]
  /\ tm_finishes = [c \in Callers |-> 0]

TmIdle == TaskInit

\* a thread calls submit: the can_start_task test
Submit(c) ==
  /\ tm_call[c].pc = "idle"
  /\ tm_worker[c].state = "none"
  /\ tm_counter < MaxTasks
  /\ \E task_type \in TaskTypes :
       tm_call' = [tm_call EXCEPT ![c] =
                     IF CanStartTask(sm_state)
                     THEN [pc |-> "checked", task_type |-> task_type, ret |-> 0]
                     ELSE [pc |-> "returned", task_type |-> task_type, ret |-> 0]]
  /\ UNCHANGED <<sm_state, sm_current, tm_counter, tm_worker, tm_finishes>>
  /\ TmFrame

\* submit goes on: start_task, one step under the lock
StartTask(c) ==
  /\ tm_call[c].pc = "checked"
  /\ IF StartTaskAllowed(sm_state)
     THEN /\ sm_state' = "running"
          /\ sm_current' = tm_call[c].task_type
          /\ tm_call' = [tm_call EXCEPT ![c].pc = "started"]
          /\ tm_finishes' = [tm_finishes EXCEPT ![c] = 0]
     ELSE /\ tm_call' = [tm_call EXCEPT ![c].pc = "returned"]
          /\ UNCHANGED <<sm_state, sm_current, tm_finishes>>
  /\ UNCHANGED <<tm_counter, tm_worker>>
  /\ TmFrame

\* the rest of submit: the task id, the Worker handed to the pool, the return
StartWorker(c) ==
  /\ tm_call[c].pc = "started"
  /\ tm_counter' = tm_counter + 1
  /\ tm_worker' = [tm_worker EXCEPT ![c] = [NoWorker EXCEPT !.state = "queued"]]
  /\ tm_call' = [tm_call EXCEPT ![c].pc = "returned", ![c].ret = tm_counter + 1]
  /\ UNCHANGED <<sm_state, sm_current, tm_finishes>>
  /\ TmFrame

\* the caller has the return value of submit and may call again
SubmitReturned(c) ==
  /\ tm_call[c].pc = "returned"
  /\ tm_call' = [tm_call EXCEPT ![c] = NoCallState]
  /\ UNCHANGED <<sm_state, sm_current, tm_counter, tm_worker, tm_finishes>>
  /\ TmFrame

\* a pool thread runs Worker.run up to the finished signal
RunWorker(c) ==
  /\ tm_worker[c].state = "queued"
  /\ \E outcome \in FnOutcomes : tm_worker' = [tm_worker EXCEPT ![c] = WorkerRun(outcome)]
  /\ UNCHANGED <<sm_state, sm_current, tm_counter, tm_call, tm_finishes>>
  /\ TmFrame

\* handle_finished: finish_task with the result, then the worker is dropped
HandleFinished(c) ==
  /\ tm_worker[c].state = "ended"
  /\ tm_worker[c].emitted
  /\ sm_state' = IF tm_worker[c].ok THEN "done" ELSE "error"
  /\ sm_current' = "none"
  /\ tm_finishes' = [tm_finishes EXCEPT ![c] = @ + 1]
  /\ tm_worker' = [tm_worker EXCEPT ![c] = NoWorker]
  /\ UNCHANGED <<tm_counter, tm_call>>
  /\ TmFrame

(***************************************************************************)
(* build_image.py: build_image_bulk and build_image over the module-level  *)
(* DEFAULT_PARTITION_CONFIGS, on the Source folders of several projects    *)
(***************************************************************************)
BiProjects == {"A", "B"}
BiParts == {"system_a", "vendor_a"}
FolderSizes == {4096, 8192}

\* a path inside a project: out/Source/<partition>, a file of the config
\* folder, a file under <source>/etc/selinux; or the empty string
NoPath == [project |-> "", at |-> ""]
PathIn(project, at) == [project |-> project, at |-> at]

\* BuildImageConfig(): the fields a bulk build sets, at their defaults
BuildImageConfig ==
  [image_size |-> 0, source_dir |-> NoPath, file_contexts |-> NoPath, fs_config |-> NoPath]

\* the module-level dict as it is after import
DEFAULT_PARTITION_CONFIGS == [partition \in BiParts |-> BuildImageConfig]

\* estimate_image_size: 15% overhead, rounded up to 4 KiB
EstimateImageSize(folder_size) ==
  LET estimated == (folder_size * 115) \div 100
  IN  ((estimated + 4095) \div 4096) * 4096

\* one out/Source/<partition> folder and the metadata files that go with it
SourceStates ==
  [exists : BOOLEAN, size : FolderSizes, fc : {"none", "config", "source"}, fsc : BOOLEAN]

\* find_file_contexts: the config folder first, then <source>/etc/selinux
FindFileContexts(project, d) ==
  IF d.fc = "config" THEN PathIn(project, "config")
  ELSE IF d.fc = "source" /\ d.exists THEN PathIn(project, "etc")
  ELSE NoPath

\* find_fs_config: the config folder only
FindFsConfig(project, d) == IF d.fsc THEN PathIn(project, "config") ELSE NoPath

\* the config object a bulk build takes for a partition: the caller's, or the
\* entry of the module-level dict itself
ConfigFor(defaults, partition, given) ==
  IF given THEN BuildImageConfig ELSE defaults[partition]

\* build_image_bulk, the assignments before the build: source_dir always,
\* the two metadata paths only when a file was found
SetPaths(config, project, d) ==
  [config EXCEPT !.source_dir = PathIn(project, "source"),
                 !.file_contexts = IF FindFileContexts(project, d) # NoPath
                                   THEN FindFileContexts(project, d) ELSE @,
                 !.fs_config = IF FindFsConfig(project, d) # NoPath
                               THEN FindFsConfig(project, d) ELSE @]

\* build_image: the size is computed only when the config holds none
AutoImageSize(config, d) ==
  IF config.image_size <= 0
  THEN [config EXCEPT !.image_size = EstimateImageSize(d.size)]
  ELSE config

\* what a build of the partition takes from the call's arguments and the disk
ExpectedConfig(project, d) ==
  [image_size    |-> EstimateImageSize(d.size),
   source_dir    |-> PathIn(project, "source"),
   file_contexts |-> FindFileContexts(project, d),
   fs_config     |-> FindFsConfig(project, d)]

NoBuildCall == [project |-> "", left |-> <<>>, given |-> FALSE]
NoBuild == [project |-> "", partition |-> "", config |-> BuildImageConfig]
BiNone == [ok |-> FALSE, kind |-> "none"]

BuildInit ==
  /\ bi_defaults = DEFAULT_PARTITION_CONFIGS
  /\ bi_disk = [project \in BiProjects |-> [partition \in BiParts |->
                  [exists |-> TRUE, size |-> 4096, fc |-> "none", fsc |-> FALSE]]]
  /\ bi_pc = "idle"
  /\ bi_call = NoBuildCall
  /\ bi_cancel = FALSE
  /\ bi_failed = {}
  /\ bi_last = NoBuild
  /\ bi_result = BiNone
  /\ bi_edits = 0

BiIdle == BuildInit

\* between two calls the user changes one thing in a project: a Source folder
\* is deleted or restored, its content grows or shrinks, a file_contexts or
\* fs_config file is added or removed
EditSource ==
  /\ bi_pc = "idle"
  /\ bi_edits < MaxEdits
  /\ \E project \in BiProjects, partition \in BiParts, d \in SourceStates :
       LET old == bi_disk[project][partition]
       IN  /\ Cardinality({f \in {"exists", "size", "fc", "fsc"} : d[f] # old[f]}) = 1
           /\ bi_disk' = [bi_disk EXCEPT ![project][partition] = d]
  /\ bi_edits' = bi_edits + 1
  /\ UNCHANGED <<bi_defaults, bi_pc, bi_call, bi_cancel, bi_failed, bi_last, bi_result>>
  /\ BiFrame

\* build_image_bulk is called: a project, a list of partitions, and either
\* fresh configs of the caller for all of them or none
BuildImageBulk ==
  /\ bi_pc = "idle"
  /\ \E project \in BiProjects, given \in BOOLEAN,
        partitions \in SeqsUpTo(BiParts, Cardinality(BiParts)) :
       /\ partitions # <<>>
       /\ \A i, j \in 1..Len(partitions) : i # j => partitions[i] # partitions[j]
       /\ bi_call' = [project |-> project, left |-> partitions, given |-> given]
  /\ bi_pc' = "loop"
  /\ bi_cancel' = FALSE
  /\ bi_failed' = {}
  /\ bi_last' = NoBuild
  /\ bi_result' = BiNone
  /\ UNCHANGED <<bi_defaults, bi_disk, bi_edits>>
  /\ BiFrame

\* one pass of the loop: the partition is skipped without a Source folder,
\* else its config is filled in and build_image runs on it
BuildBulkItem ==
  /\ bi_pc = "loop"
  /\ bi_call.left # <<>>
  /\ ~bi_cancel
  /\ LET partition == Head(bi_call.left)
         project   == bi_call.project
         d         == bi_disk[project][partition]
         config    == AutoImageSize(SetPaths(ConfigFor(bi_defaults, partition, bi_call.given),
                                             project, d), d)
     IN  IF ~d.exists
         THEN UNCHANGED <<bi_defaults, bi_failed, bi_last>>
         ELSE /\ bi_defaults' = IF bi_call.given THEN bi_defaults
                                ELSE [bi_defaults EXCEPT ![partition] = config]
              /\ bi_last' = [project |-> project, partition |-> partition, config |-> config]
              /\ \E built \in BOOLEAN :
                   bi_failed' = IF built THEN bi_failed ELSE bi_failed \cup {partition}
  /\ bi_call' = [bi_call EXCEPT !.left = Tail(@)]
  /\ UNCHANGED <<bi_disk, bi_pc, bi_cancel, bi_result, bi_edits>>
  /\ BiFrame

\* the loop is over or was left by the cancel check
BuildBulkReturn ==
  /\ bi_pc = "loop"
  /\ bi_call.left = <<>> \/ bi_cancel
  /\ bi_result' = IF bi_failed # {} THEN [ok |-> FALSE, kind |-> "failed"]
                  ELSE [ok |-> TRUE, kind |-> "built"]
  /\ bi_pc' = "done"
  /\ UNCHANGED <<bi_defaults, bi_disk, bi_call, bi_cancel, bi_failed, bi_last, bi_edits>>
  /\ BiFrame

\* the cancel token of the running bulk build is set
CancelBuild ==
  /\ bi_pc = "loop"
  /\ ~bi_cancel
  /\ bi_cancel' = TRUE
  /\ UNCHANGED <<bi_defaults, bi_disk, bi_pc, bi_call, bi_failed, bi_last, bi_result, bi_edits>>
  /\ BiFrame

\* the caller has the result; the process lives on with its module state
BuildTaskFinished ==
  /\ bi_pc = "done"
  /\ bi_pc' = "idle"
  /\ bi_call' = NoBuildCall
  /\ bi_cancel' = FALSE
  /\ bi_failed' = {}
  /\ bi_last' = NoBuild
  /\ bi_result' = BiNone
  /\ UNCHANGED <<bi_defaults, bi_disk, bi_edits>>
  /\ BiFrame

(***************************************************************************)
(* Specifications                                                          *)
(***************************************************************************)
\* the AVB patch engine
\* the parts added for the fstab patcher and the task scheduler
LaterIdle == FlIdle /\ FfIdle /\ TmIdle /\ BiIdle

OtherIdle == SlIdle /\ NmIdle /\ DtIdle /\ LaterIdle

Init == AvbInit /\ RzIdle /\ SpIdle /\ PtIdle /\ OtherIdle

Next ==
  \/ PatchAllVbmeta
  \/ DisableDmVerityFull
  \/ PatchTarget
  \/ VbmetaReturn
  \/ DisableFstabOnly
  \/ PatchFstab
  \/ FstabReturn
  \/ Cancel
  \/ TaskFinished

Spec == Init /\ [][Next]_vars

\* the resize validation
ResizeInit == RzInit /\ AvbIdle /\ SpIdle /\ PtIdle /\ OtherIdle

ResizeNext == RunValidateAuto \/ RunValidateStrict

SpecResize == ResizeInit /\ [][ResizeNext]_vars

\* the super image engine
SuperEngineInit == SuperInit /\ AvbIdle /\ RzIdle /\ PtIdle /\ OtherIdle

SuperNext ==
  \/ UnpackSuperImg
  \/ BuildSuperImg
  \/ ReplacePartitionImage
  \/ DeleteSuperInput
  \/ SuperTaskFinished

SpecSuper == SuperEngineInit /\ [][SuperNext]_vars

\* the partition image engine
PartEngineInit == PartInit /\ AvbIdle /\ RzIdle /\ SpIdle /\ OtherIdle

PartNext ==
  \/ ExtractPartitionImage
  \/ RepackPartitionImage
  \/ CleanSource
  \/ PartTaskFinished

SpecPart == PartEngineInit /\ [][PartNext]_vars

\* sequences of extract_partition_image calls on one image after another
IndexNext == ExtractPartitionImage \/ ImportImage \/ PartTaskFinished

SpecIndex == PartEngineInit /\ [][IndexNext]_vars

\* the bulk operations: repack_all_partitions over the extracted partitions, and
\* disable_fstab_only over the fstab files found. The project starts with any
\* of the partitions extracted, in either index order, their source trees kept
\* or removed since; one task runs at a time (StateMachine.start_task).
\* With edited, partition_index.json was written outside extract_partition_image
\* and some of its entries have no partition_name
ProjectExtracted(edited) ==
  /\ pt_img = NoInput
  /\ pt_legacy = NoLegacy
  /\ \E order \in SeqsUpTo(PartNames, Cardinality(PartNames)),
        fs \in [PartNames -> FsTypes], gone \in SUBSET PartNames,
        unnamed \in SUBSET (1..Cardinality(PartNames)) :
       LET extracted == {order[i] : i \in 1..Len(order)}
       IN  /\ \A i, j \in 1..Len(order) : i # j => order[i] # order[j]
           /\ unnamed \subseteq 1..Len(order)
           /\ edited \/ unnamed = {}
           /\ gone \subseteq extracted
           /\ \A n \in PartNames \ extracted : fs[n] = "ext4"
           /\ pt_meta = [n \in PartNames |->
                          IF n \in extracted
                          THEN [present |-> TRUE, fs_type |-> fs[n], was_sparse |-> FALSE]
                          ELSE NoRecord]
           /\ pt_index = [i \in 1..Len(order) |->
                           [partition_name |-> IF i \in unnamed THEN "" ELSE order[i],
                            fs_type |-> fs[order[i]], was_sparse |-> FALSE]]
           /\ pt_src = [n \in PartNames |->
                         IF n \in extracted \ gone
                         THEN [exists |-> TRUE, files |-> 1, dirs |-> FALSE]
                         ELSE NoDir]
  /\ pt_out = [n \in PartNames |-> NoOutputs]
  /\ pt_pc = "idle"
  /\ pt_op = "none"
  /\ pt_arg = NoPartArg
  /\ pt_result = PtNone
  /\ pt_run = NoPartRun
  /\ pt_before = [meta |-> pt_meta, index |-> pt_index, out |-> pt_out]
  /\ ra_left = <<>>
  /\ ra_results = <<>>
  /\ ra_sparse = FALSE
  /\ ra_cancel = FALSE

BulkInit == ProjectExtracted(FALSE)

BulkEngineInit == BulkInit /\ AvbIdle /\ RzIdle /\ SpIdle /\ OtherIdle

BulkNext ==
  \/ (pc = "idle" /\ RepackAllPartitions)
  \/ RepackAllItem
  \/ RepackAllReturn
  \/ CancelRepackAll
  \/ PartTaskFinished
  \/ (pt_pc = "idle" /\ DisableFstabOnly)
  \/ PatchFstab
  \/ FstabReturn
  \/ Cancel
  \/ TaskFinished

SpecBulk == BulkEngineInit /\ [][BulkNext]_vars

\* repack_all_partitions over a partition index that may hold entries without
\* a partition_name
EditedIndexInit == ProjectExtracted(TRUE) /\ AvbIdle /\ RzIdle /\ SpIdle /\ OtherIdle

RepackAllNext ==
  \/ RepackAllPartitions
  \/ RepackAllItem
  \/ RepackAllReturn
  \/ CancelRepackAll
  \/ PartTaskFinished

SpecRepackAll == EditedIndexInit /\ [][RepackAllNext]_vars

\* the fstab line patcher as a pure function of a line
FstabLineEngineInit ==
  /\ FstabLineInit /\ AvbIdle /\ RzIdle /\ SpIdle /\ PtIdle /\ SlIdle /\ NmIdle /\ DtIdle
  /\ FfIdle /\ TmIdle /\ BiIdle

FstabLineNext == PatchLine

SpecFstabLine == FstabLineEngineInit /\ [][FstabLineNext]_vars

\* repeated fstab patch runs on one directory
FstabFileEngineInit ==
  /\ FstabFileInit /\ AvbIdle /\ RzIdle /\ SpIdle /\ PtIdle /\ SlIdle /\ NmIdle /\ DtIdle
  /\ FlIdle /\ TmIdle /\ BiIdle

FstabFileNext == ListFstabFiles \/ PatchFstabFile \/ StopPatching

SpecFstabFile == FstabFileEngineInit /\ [][FstabFileNext]_vars

\* the task scheduler: submit calls from several threads and their workers
TaskEngineInit ==
  /\ TaskInit /\ AvbIdle /\ RzIdle /\ SpIdle /\ PtIdle /\ SlIdle /\ NmIdle /\ DtIdle
  /\ FlIdle /\ FfIdle /\ BiIdle

TaskNext ==
  \/ \E c \in Callers : Submit(c)
  \/ \E c \in Callers : StartTask(c)
  \/ \E c \in Callers : StartWorker(c)
  \/ \E c \in Callers : SubmitReturned(c)
  \/ \E c \in Callers : RunWorker(c)
  \/ \E c \in Callers : HandleFinished(c)

SpecTasks == TaskEngineInit /\ [][TaskNext]_vars

\* bulk image builds, one call after another in one process, with changes to
\* the projects in between
BuildEngineInit ==
  /\ BuildInit /\ AvbIdle /\ RzIdle /\ SpIdle /\ PtIdle /\ SlIdle /\ NmIdle /\ DtIdle
  /\ FlIdle /\ FfIdle /\ TmIdle

BuildNext ==
  \/ EditSource
  \/ BuildImageBulk
  \/ BuildBulkItem
  \/ BuildBulkReturn
  \/ CancelBuild
  \/ BuildTaskFinished

SpecBuild == BuildEngineInit /\ [][BuildNext]_vars

\* the pool runs every queued worker, and every finished signal is delivered
SpecTasksFair ==
  /\ SpecTasks
  /\ \A c \in Callers : WF_vars(RunWorker(c)) /\ WF_vars(HandleFinished(c))

\* the slot resolver as a pure function of a name list and a slot mode
SlotEngineInit == SlotInit /\ AvbIdle /\ RzIdle /\ SpIdle /\ PtIdle /\ NmIdle /\ DtIdle /\ LaterIdle

SlotNext == RunFilter \/ RunScan

SpecSlot == SlotEngineInit /\ [][SlotNext]_vars

\* the base-name derivations as pure functions of a name
NameEngineInit == NameInit /\ AvbIdle /\ RzIdle /\ SpIdle /\ PtIdle /\ SlIdle /\ DtIdle /\ LaterIdle

NameNext ==
  \/ CallStripSlotSuffix
  \/ CallNormalizeMountBase
  \/ CallGetMountPoint
  \/ CallNormalizeMountPoint
  \/ SelectFsPartition

SpecName == NameEngineInit /\ [][NameNext]_vars

\* the dirty tracker of one project, its source trees edited between the calls
DirtyEngineInit == DirtyInit /\ AvbIdle /\ RzIdle /\ SpIdle /\ PtIdle /\ SlIdle /\ NmIdle /\ LaterIdle

DirtyNext ==
  \/ SetDirty
  \/ MarkAllClean
  \/ MarkAllDirty
  \/ SavePartitionSnapshot
  \/ MarkCleanAfterExtract
  \/ AutoDetectDirty
  \/ WriteSourceFile
  \/ DeleteSourceFile
  \/ LoseJsonFile

SpecDirty == DirtyEngineInit /\ [][DirtyNext]_vars

(***************************************************************************)
(* Claims about the AVB patch engine                                       *)
(***************************************************************************)

\* C1: after a successful patch_all_vbmeta every patched image at its destination has
\* exactly the size its target had before the run, a smaller candidate being extended
\* by zero bytes up to that size; and no run ever changes the size of a vbmeta image.
C1_SizePreserved ==
  /\ \A n \in VbNames : Exists(out_dir[n]) => Size(out_dir[n]) = size0[n]
  /\ (pc \in {"vb_done", "done"} /\ vb_result.ok) =>
       \A i \in 1..Len(vb_result.artifacts) :
         LET n == vb_result.artifacts[i]
             f == out_dir[n]
         IN  /\ Exists(f)
             /\ f.origin \in {"avbtool", "minimal"}
             /\ f.body <= run_in0[n]
             /\ f.pad = run_in0[n] - f.body
             /\ Size(f) = run_in0[n]

\* C1 witness: a successful run left an image that was padded up to its original size
C1_Witness ==
  /\ pc = "done" /\ op = "patch_all_vbmeta" /\ op_result.ok
  /\ \E i \in 1..Len(op_result.artifacts) : out_dir[op_result.artifacts[i]].pad > 0

\* C2: a candidate larger than the original makes patch_all_vbmeta return a failure,
\* with the temporary candidate deleted and the destination exactly as before the call.
C2_OversizeFailsClean ==
  \A n \in oversize :
    /\ pc \in {"vb_done", "fs_loop", "fs_done", "done"}
    /\ ~vb_result.ok
    /\ vb_result.message = CriticalMsg
    /\ ~Exists(tmp_dir[n])
    /\ out_dir[n] = run_out0[n]
    /\ (op = "patch_all_vbmeta" /\ pc = "done") => op_result = vb_result

\* C2 witness: the built-in 4096-byte header was larger than a target that had no
\* image at its destination
C2_Witness ==
  /\ pc = "done" /\ op = "patch_all_vbmeta" /\ ~avbtool
  /\ \E n \in oversize : ~Exists(out_dir[n]) /\ Exists(in_dir[n])

\* C3: a size-invariant violation aborts the batch at once: no later target is
\* processed and the enclosing operation (patch_all_vbmeta, disable_dm_verity_full)
\* returns overall failure.
C3_OversizeAbortsBatch ==
  oversize # {} =>
    /\ processed[Len(processed)] \in oversize
    /\ pc = "done" => ~op_result.ok

(***************************************************************************)
(* Claims about the resize validation                                      *)
(***************************************************************************)
RECURSIVE C4_Sum(_, _, _, _)
C4_Sum(new_sizes, parts, g, i) ==
  IF i = 0 THEN 0
  ELSE C4_Sum(new_sizes, parts, g, i - 1)
       + (IF g = "*" \/ (IF parts[i].group = "" THEN "default" ELSE parts[i].group) = g
          THEN (IF parts[i].name \in DOMAIN new_sizes
                THEN new_sizes[parts[i].name] ELSE parts[i].size)
          ELSE 0)

C4_GroupSum(g) == C4_Sum(rz_new, rz_meta.partitions, g, Len(rz_meta.partitions))
C4_Budget(g) == IF g \in DOMAIN rz_meta.groups THEN rz_meta.groups[g] ELSE rz_meta.capacity
C4_Groups == {"default", "main", "aux"}
C4_Over == {g \in C4_Groups : C4_GroupSum(g) > C4_Budget(g)}

\* C4: auto mode accepts exactly when every group's sum of new sizes is at most the
\* group's max size and the sum over all groups is at most the capacity; when a group
\* budget is exceeded the error is the group one (also when the capacity is exceeded
\* too), naming an exceeded group and its overflow; otherwise an exceeded capacity is
\* reported with its overflow.
C4_AutoValidation ==
  rz_mode = "auto" =>
    /\ rz_result.ok <=>
         /\ \A g \in DOMAIN rz_meta.groups : C4_GroupSum(g) <= rz_meta.groups[g]
         /\ C4_GroupSum("*") <= rz_meta.capacity
    /\ C4_Over # {} =>
         /\ rz_result.kind = "group"
         /\ rz_result.who \in C4_Over
         /\ rz_result.delta = C4_GroupSum(rz_result.who) - C4_Budget(rz_result.who)
    /\ (C4_Over = {} /\ C4_GroupSum("*") > rz_meta.capacity) =>
         /\ rz_result.kind = "capacity"
         /\ rz_result.delta = C4_GroupSum("*") - rz_meta.capacity

\* C4 witness: a declared group budget and the capacity are both exceeded, and the
\* validation has answered
C4_Witness ==
  /\ rz_mode = "auto"
  /\ rz_result.kind = "group"
  /\ rz_result.who \in DOMAIN rz_meta.groups
  /\ C4_GroupSum("*") > rz_meta.capacity
  /\ Cardinality({i \in 1..Len(rz_meta.partitions) :
                    GroupOf(rz_meta.partitions[i]) = rz_result.who}) > 1

(***************************************************************************)
(* Claims about the super image engine                                     *)
(***************************************************************************)
C5_Meta == (IF sp_meta_out.present THEN sp_meta_out ELSE sp_meta_legacy).meta
C5_New(n) == ((sp_work[n].size + SuperBlockSize - 1) \div SuperBlockSize) * SuperBlockSize
C5_Orig(n) ==
  LET i == CHOOSE k \in 1..Len(C5_Meta.partitions) : C5_Meta.partitions[k].name = n
  IN  C5_Meta.partitions[i].size
C5_Grown == {n \in SuperPartSet : sp_work[n].src # "none" /\ C5_New(n) > C5_Orig(n)}

\* C5: a strict-mode build whose validation finds a partition with a new block-aligned
\* size above its recorded original size fails with the strict error naming such a
\* partition, without running lpmake and without touching the output files; when no
\* partition grew, the strict validation passes and lpmake is run.
C5_StrictValidation ==
  (/\ sp_pc = "done" /\ sp_op = "build" /\ sp_args.mode = "strict"
   /\ sp_result.kind \notin {"no_lpmake", "no_metadata"}) =>
    /\ C5_Grown # {} =>
         /\ ~sp_result.ok
         /\ sp_result.kind = "strict"
         /\ sp_result.who \in C5_Grown
         /\ sp_result.delta = C5_New(sp_result.who) - C5_Orig(sp_result.who)
         /\ ~sp_tool.ran
         /\ sp_out_raw = sp_out0.raw /\ sp_out_sparse = sp_out0.sparse
    /\ C5_Grown = {} => (sp_result.kind # "strict" /\ sp_tool.ran)

\* C5 witness: a strict build was refused for a partition whose image length is not
\* a multiple of the block size, while the other partition did not grow
C5_Witness ==
  /\ sp_pc = "done" /\ sp_op = "build" /\ sp_args.mode = "strict"
  /\ sp_result.kind = "strict"
  /\ sp_work[sp_result.who].size < C5_New(sp_result.who)
  /\ C5_Grown = {sp_result.who}

\* C6: a sparse image is never treated as raw: lpunpack and lpmake never run on a
\* sparse file, and an operation whose sparse input was not converted fails.
C6_SparseNeverRaw ==
  sp_pc = "done" =>
    /\ ~(sp_tool.ran /\ sp_tool.fed_sparse)
    /\ sp_tool.fed_sparse => ~sp_result.ok

\* C6 witness: a build whose sparse partition image was converted before lpmake ran
C6_Witness ==
  /\ sp_pc = "done" /\ sp_op = "build" /\ sp_tool.ran
  /\ \E n \in SuperPartSet : sp_work[n].src = "temp"

\* C9: without a persisted super_metadata.json build_super_img fails, runs no lpmake
\* and leaves the output files alone; a successful unpack_super_img has persisted the
\* metadata of the image, the file stays, and no later build fails for missing
\* metadata.
C9_MetadataRequired ==
  /\ (sp_pc = "done" /\ sp_op = "build"
        /\ ~sp_meta_out.present /\ ~sp_meta_legacy.present) =>
       /\ ~sp_result.ok
       /\ ~sp_tool.ran
       /\ sp_out_raw = sp_out0.raw /\ sp_out_sparse = sp_out0.sparse
  /\ (sp_pc = "done" /\ sp_op = "unpack" /\ sp_result.ok) =>
       /\ sp_meta_out.present
       /\ sp_meta_out.meta.capacity = sp_layout.capacity
       /\ sp_meta_out.meta.partitions =
            [i \in 1..Len(sp_layout.partitions) |->
               [name |-> sp_layout.partitions[i].name,
                group |-> sp_layout.partitions[i].group,
                size |-> sp_layout.partitions[i].size,
                attributes |-> sp_layout.partitions[i].attributes]]
  /\ sp_unpacked =>
       /\ sp_meta_out.present
       /\ (sp_pc = "done" /\ sp_op = "build") => sp_result.kind # "no_metadata"

\* C9 witness: after a successful unpack the input super image is gone and a build
\* succeeded
C9_Witness ==
  /\ sp_unpacked /\ sp_super = "absent" /\ ~sp_meta_legacy.present
  /\ sp_pc = "done" /\ sp_op = "build" /\ sp_result.ok

\* the other case of C9: a build refused because no metadata file exists
C9_RefusedReached ==
  sp_pc = "done" /\ sp_op = "build" /\ sp_result.kind = "no_metadata"

\* the build_super_img part of C8: with sparse output requested, a successful
\* conversion leaves only the sparse image, which is the artifact; a failed or
\* unavailable conversion leaves the raw image, which is the artifact.
C8_SuperSparseOutput ==
  (sp_pc = "done" /\ sp_op = "build" /\ sp_args.sparse /\ sp_conv # "none") =>
    /\ sp_result.ok
    /\ sp_conv = "ok" =>
         (sp_out_sparse /\ ~sp_out_raw /\ sp_result.artifact = "sparse")
    /\ sp_conv \in {"fail", "missing"} =>
         (sp_out_raw /\ sp_result.artifact = "raw")

(***************************************************************************)
(* Claims about the partition image engine                                 *)
(***************************************************************************)

\* the extract_partition_image part of C6: filesystem detection and the extractor
\* run only on a raw image, and a sparse input whose conversion failed or whose
\* converter is missing makes the extraction fail before either of them runs.
C6_ExtractSparse ==
  (pt_pc = "done" /\ pt_op = "extract" /\ pt_img.exists /\ pt_img.sparse) =>
    /\ pt_run.conv_in \in {"missing", "fail", "ok"}
    /\ pt_run.conv_in # "ok" =>
         (~pt_result.ok /\ pt_run.detect_on = "none" /\ pt_run.extractor = "none")

\* C7: extract_partition_image succeeds only if out/Source/<partition>/ exists and
\* holds a regular file after the extractor ran; with no regular file there it fails,
\* whatever the extractor returned, and leaves the partition records and the index
\* as they were.
C7_ExtractValidated ==
  (pt_pc = "done" /\ pt_op = "extract") =>
    /\ pt_result.ok =>
         (pt_src[pt_arg.name].exists /\ pt_src[pt_arg.name].files >= 1)
    /\ pt_src[pt_arg.name].files = 0 =>
         /\ ~pt_result.ok
         /\ pt_meta = pt_before.meta
         /\ pt_index = pt_before.index

\* C7 witness: the extractor returned 0 and left only directories; no record existed
C7_Witness ==
  /\ pt_pc = "done" /\ pt_op = "extract"
  /\ pt_run.extractor = "raw" /\ pt_run.rc = 0
  /\ pt_src[pt_arg.name].dirs /\ pt_src[pt_arg.name].files = 0
  /\ ~pt_meta[pt_arg.name].present

\* the other case of C7: a successful extraction that wrote the record and the index
C7_SuccessReached ==
  /\ pt_pc = "done" /\ pt_op = "extract" /\ pt_result.ok /\ pt_run.rc = 1
  /\ pt_meta[pt_arg.name].present /\ Len(pt_index) = 1

\* C8: with sparse output requested and the raw image built, a successful conversion
\* leaves no raw image and the artifact is the sparse image; a failed or unavailable
\* conversion still gives success, with the raw image on disk as the artifact.
C8_SparseOutput ==
  (pt_pc = "done" /\ pt_op = "repack" /\ pt_arg.sparse /\ pt_run.conv_out # "none") =>
    LET out == pt_out[pt_arg.name]
    IN  /\ pt_result.ok
        /\ pt_run.conv_out = "ok" =>
             /\ ~out.raw_img /\ out.patched # "raw"
             /\ \/ pt_result.artifact = "patched" /\ out.patched = "sparse"
                \/ pt_result.artifact = "patched_sparse" /\ out.sparse_img # "absent"
        /\ pt_run.conv_out \in {"fail", "missing"} =>
             \/ pt_run.raw_at = "patched" /\ pt_result.artifact = "patched"
                  /\ out.patched = "raw"
             \/ pt_run.raw_at = "patched_raw" /\ pt_result.artifact = "patched_raw"
                  /\ out.raw_img

\* C8 witness: an ext4 repack with sparse output whose conversion succeeded
C8_Witness ==
  /\ pt_pc = "done" /\ pt_op = "repack" /\ pt_arg.sparse
  /\ pt_run.raw_at = "patched_raw" /\ pt_run.conv_out = "ok" /\ pt_result.ok

\* C10: repack_partition_image(p) for a partition p without a persisted record fails,
\* runs no build tool and leaves the output files alone.
C10_RepackNeedsRecord ==
  (/\ pt_pc = "done" /\ pt_op = "repack" /\ pt_arg.name \in PartNames
   /\ ~pt_meta[pt_arg.name].present
   /\ ~(pt_legacy.present /\ pt_legacy.partition_name = pt_arg.name)) =>
    /\ ~pt_result.ok
    /\ pt_run.builder = "none"
    /\ pt_out = pt_before.out

\* C10 witness: a repack refused because no metadata file exists at all
C10_Witness ==
  /\ pt_pc = "done" /\ pt_op = "repack" /\ pt_arg.name \in PartNames
  /\ pt_result.kind = "no_metadata"
(***************************************************************************)
(* Claims about the slot resolver                                          *)
(***************************************************************************)
\* the name as the resolver that ran compares it: filter_partitions_by_slot
\* ignores letter case, scan_vbmeta_targets does not
SlotKey(n) == IF sl_op = "filter" THEN Lower(n) ELSE n

SlotOfName(n) ==
  IF EndsWith(SlotKey(n), <<"_", "a">>) THEN "a"
  ELSE IF EndsWith(SlotKey(n), <<"_", "b">>) THEN "b"
  ELSE "base"

BaseOfName(n) ==
  IF SlotOfName(n) = "base" THEN SlotKey(n)
  ELSE SubSeq(SlotKey(n), 1, Len(SlotKey(n)) - 2)

SlotInput == SeqToSet(sl_names)
SlotOutput == SeqToSet(sl_result)

HasVariant(base, slot) ==
  \E n \in SlotInput : BaseOfName(n) = base /\ SlotOfName(n) = slot

Slotted(S) == {n \in S : SlotOfName(n) \in {"a", "b"}}

C11_ScanFallback ==
  /\ sl_op = "scan" /\ sl_mode = "auto"
  /\ \E n \in SlotInput :
       /\ ~HasVariant(BaseOfName(n), "a")
       /\ HasVariant(BaseOfName(n), "b")
       /\ HasVariant(BaseOfName(n), "base")
  /\ Len(sl_result) = 2

\* C12: in slot mode A the result holds, for each base, the _a variant if the
\* input has one, otherwise the unsuffixed name if the input has it, and never
\* a _b name; slot mode B is the mirror image.
C12_ExplicitSlot ==
  (sl_op # "none" /\ sl_mode \in {"A", "B"}) =>
    LET want  == IF sl_mode = "A" THEN "a" ELSE "b"
        other == IF sl_mode = "A" THEN "b" ELSE "a"
    IN  /\ SlotOutput =
             {n \in SlotInput :
                \/ SlotOfName(n) = want
                \/ SlotOfName(n) = "base" /\ ~HasVariant(BaseOfName(n), want)}
        /\ \A n \in SlotOutput : SlotOfName(n) # other
        /\ Len(sl_result) = Cardinality(SlotOutput)

\* mode A on a base that has only its _b variant and on one that has only
\* the unsuffixed name: the first is dropped, the second kept
C12_Witness ==
  /\ sl_op # "none" /\ sl_mode = "A"
  /\ \E m, n \in SlotInput :
       /\ SlotOfName(m) = "b" /\ ~HasVariant(BaseOfName(m), "a")
       /\ ~HasVariant(BaseOfName(m), "base")
       /\ SlotOfName(n) = "base" /\ BaseOfName(n) # BaseOfName(m)
       /\ m \notin SlotOutput /\ n \in SlotOutput

\* C13: in slot mode both the result holds every _a and every _b name of the
\* input, and an unsuffixed name exactly when the input has neither variant of
\* it; a name list without any slotted name is returned unchanged in all modes.
C13_BothAndUnslotted ==
  sl_op # "none" =>
    /\ sl_mode = "both" =>
         /\ SlotOutput =
              Slotted(SlotInput) \cup
              {n \in SlotInput :
                 /\ SlotOfName(n) = "base"
                 /\ ~HasVariant(BaseOfName(n), "a")
                 /\ ~HasVariant(BaseOfName(n), "b")}
         /\ Len(sl_result) = Cardinality(SlotOutput)
    /\ Slotted(SlotInput) = {} => sl_result = sl_names

\* mode both on a base with both variants and the unsuffixed name
C13_Witness ==
  /\ sl_op # "none" /\ sl_mode = "both"
  /\ \E n \in SlotInput :
       /\ SlotOfName(n) = "base"
       /\ HasVariant(BaseOfName(n), "a") /\ HasVariant(BaseOfName(n), "b")
       /\ n \notin SlotOutput
  /\ Len(sl_result) = 2

\* several unslotted names, returned as they came
C13_UnslottedReached ==
  /\ sl_op # "none" /\ Slotted(SlotInput) = {} /\ Len(sl_names) = MaxSlotNames
  /\ sl_result = sl_names

(***************************************************************************)
(* Claims about base and mount names                                       *)
(***************************************************************************)
\* the name without a trailing _a or _b, and nothing else removed
WithoutTrailingSlot(n) ==
  IF Len(n) >= 2 /\ n[Len(n) - 1] = "_" /\ n[Len(n)] \in {"a", "b"}
  THEN SubSeq(n, 1, Len(n) - 2)
  ELSE n

\* C14: every base-name derivation (strip_slot_suffix, normalize_mount_base,
\* get_mount_point, normalize_mount_point, the base_name that selects the
\* filesystem partitions in unpack_update_img) removes a trailing _a or _b and
\* nothing else: a name without that suffix comes back unchanged and an _a or
\* _b inside the name stays.  (Leading slashes and letter case are those the
\* derivation is documented to normalise.)
C14_OnlyTrailingSlotRemoved ==
  /\ nm_op = "strip_slot_suffix" => nm_result = WithoutTrailingSlot(nm_name)
  /\ nm_op = "normalize_mount_base" =>
       nm_result = WithoutTrailingSlot(LStrip(nm_name, "/"))
  /\ nm_op = "get_mount_point" =>
       nm_result = <<"/">> \o WithoutTrailingSlot(LStrip(nm_name, "/"))
  /\ nm_op = "normalize_mount_point" => nm_result = WithoutTrailingSlot(Lower(nm_name))
  /\ nm_op = "unpack_update_img" =>
       /\ nm_result = WithoutTrailingSlot(Lower(nm_name))
       /\ nm_selected <=> WithoutTrailingSlot(Lower(nm_name)) \in FS_PARTITIONS

\* the four derivations outside unpack_update_img
C14_SuffixOnlyElsewhere ==
  nm_op # "unpack_update_img" => C14_OnlyTrailingSlotRemoved

\* a slotted filesystem partition, selected under its base name
C14_Witness ==
  /\ nm_op = "unpack_update_img"
  /\ nm_name = <<"system", "_", "ext", "_", "a">> \/ nm_name = <<"system", "_", "b">>
  /\ nm_selected

\* a partition that is none of the filesystem partitions, selected because an
\* inner _a or _b was removed from its name
C14_WrongPartitionSelected ==
  /\ nm_op = "unpack_update_img"
  /\ nm_selected
  /\ WithoutTrailingSlot(Lower(nm_name)) \notin FS_PARTITIONS

(***************************************************************************)
(* Claims about the dirty tracker                                          *)
(***************************************************************************)
\* C15: is_dirty(p) is false only if the last flag an operation wrote for p
\* was an explicit clean; it is true for a partition no operation ever
\* recorded, and for every partition while dirty.json is missing or unreadable.
C15_DirtyUnlessMarkedClean ==
  \A q \in DtParts :
    /\ ~IsDirty(dt_dirty, q) => dt_wrote[q] = "clean"
    /\ dt_wrote[q] = "none" => IsDirty(dt_dirty, q)
    /\ dt_dirty.state # "ok" => IsDirty(dt_dirty, q)

\* one partition marked clean, the other never recorded
C15_Witness ==
  /\ dt_dirty.state = "ok"
  /\ ~IsDirty(dt_dirty, "system") /\ dt_wrote["system"] = "clean"
  /\ IsDirty(dt_dirty, "vendor") /\ dt_wrote["vendor"] = "none"

\* a partition marked clean whose dirty.json became unreadable
C15_UnreadableReached ==
  /\ dt_dirty.state = "corrupt"
  /\ dt_wrote["system"] = "clean"
  /\ IsDirty(dt_dirty, "system")

\* the snapshot values of out/Source/<part>, counted from the files
TreeOf(part) == {f \in TreePaths : f[1] = part /\ dt_files[f].present}

TreeSize(part) ==
  SeqSum([i \in 1..MaxTreeFiles |->
            IF <<part, i>> \in TreeOf(part) THEN dt_files[<<part, i>>].st_size ELSE 0])

TreeNewest(part) ==
  CHOOSE m \in 0..MaxMtime :
    /\ \A f \in TreeOf(part) : dt_files[f].st_mtime_ns <= m
    /\ m = 0 \/ \E f \in TreeOf(part) : dt_files[f].st_mtime_ns = m

SnapshotDiffers(part) ==
  LET saved == dt_snap.dict[part]
  IN  \/ saved.file_count # Cardinality(TreeOf(part))
      \/ saved.total_size # TreeSize(part)
      \/ saved.newest_mtime_ns # TreeNewest(part)

HasSnapshot(part) == dt_snap.state = "ok" /\ dt_snap.dict[part].present

\* a step that stores a snapshot of part
StoresSnapshot(part) ==
  /\ dt_snap' # dt_snap
  /\ dt_snap'.state = "ok"
  /\ dt_snap'.dict[part].present
  /\ dt_snap.state = "ok" => dt_snap'.dict[part] # dt_snap.dict[part]

C16_UnchangedReached ==
  /\ HasSnapshot("system")
  /\ TreeOf("system") # {}
  /\ ~CheckPartitionChanged(dt_snap, dt_files, "system")

\* a step of set_dirty(p, False), mark_all_clean or mark_clean_after_extract
\* that writes the clean flag of part
ExplicitClean(part) ==
  /\ SetDirty \/ MarkAllClean \/ MarkCleanAfterExtract
  /\ dt_wrote'[part] = "clean"

\* C17: auto_detect_dirty(p) stores dirty=true and returns true if the source
\* changed, and otherwise returns the stored flag and writes nothing; so a
\* dirty partition becomes clean only by an explicit clean step, whatever
\* edits, reversions and auto_detect calls come in between.
C17_DirtyUntilExplicitClean ==
  [][\A q \in DtParts :
       /\ (dt_last' # NoCall /\ dt_last'.part = q /\ dt_last' # dt_last) =>
            IF ~HasSnapshot(q) \/ SnapshotDiffers(q)
            THEN /\ dt_last'.ret
                 /\ dt_dirty'.state = "ok" /\ dt_dirty'.dict[q] = "dirty"
            ELSE /\ dt_last'.ret = IsDirty(dt_dirty, q)
                 /\ dt_dirty' = dt_dirty
       /\ (IsDirty(dt_dirty, q) /\ ~IsDirty(dt_dirty', q)) => ExplicitClean(q)]_vars

\* auto_detect_dirty answering dirty for a tree that matches its snapshot again
C17_Witness ==
  /\ dt_last = DtLast("system", TRUE)
  /\ HasSnapshot("system") /\ ~SnapshotDiffers("system")
  /\ TreeOf("system") # {}
  /\ dt_dirty.state = "ok" /\ dt_dirty.dict["system"] = "dirty"

(***************************************************************************)
(* Claims about the partition index                                        *)
(***************************************************************************)
\* the records of the index that belong to other partitions than name
OtherRecords(index, name) == SelectSeq(index, LAMBDA e : e.partition_name # name)

\* C18: partition_index.json holds at most one record per partition name; a
\* successful extract of p puts p's new record last in place of its old one and
\* leaves every other record as it was, a failed extract changes no record.
C18_IndexKeyedByName ==
  /\ \A i, j \in 1..Len(pt_index) :
       pt_index[i].partition_name = pt_index[j].partition_name => i = j
  /\ (pt_pc = "done" /\ pt_op = "extract") =>
       IF pt_result.ok
       THEN /\ pt_index # <<>>
            /\ pt_index[Len(pt_index)] =
                 [partition_name |-> pt_img.name, fs_type |-> pt_img.fs,
                  was_sparse |-> pt_img.sparse]
            /\ SubSeq(pt_index, 1, Len(pt_index) - 1) =
                 OtherRecords(pt_before.index, pt_img.name)
       ELSE pt_index = pt_before.index

\* a re-extract of the partition whose record came first: the record moves
\* behind the other partition's record, with the new image's attributes
C18_Witness ==
  /\ pt_pc = "done" /\ pt_op = "extract" /\ pt_result.ok
  /\ Len(pt_before.index) = 2
  /\ pt_before.index[1].partition_name = pt_img.name
  /\ pt_before.index[1] # pt_index[2]
  /\ pt_index[1] = pt_before.index[2]

\* a failed extract of a partition that has a record
C18_FailedReached ==
  /\ pt_pc = "done" /\ pt_op = "extract" /\ ~pt_result.ok
  /\ Len(pt_index) = 2
  /\ pt_img.exists /\ pt_index[1].partition_name = pt_img.name
\* C19: repack_all_partitions and disable_fstab_only attempt every item even
\* after an earlier item failed, and return overall failure whenever no item
\* succeeded. A finished repack_all_partitions has one result per index entry,
\* in index order; a finished disable_fstab_only that was not cancelled has no
\* fstab file left; and with zero successes the result of either is not ok.
C19_BulkAttemptsEveryItem ==
  /\ (pt_op = "repack_all" /\ pt_pc = "done") =>
       /\ Len(ra_results) = Len(pt_before.index)
       /\ \A i \in 1..Len(ra_results) :
            ra_results[i].name = pt_before.index[i].partition_name
       /\ (\A i \in 1..Len(ra_results) : ~ra_results[i].ok) => ~pt_result.ok
  /\ (op = "disable_fstab_only" /\ pc = "done") =>
       /\ ~cancel_token => fs_left = 0
       /\ fs_ok = 0 => ~op_result.ok

\* repack_all_partitions went on to the second partition after the first failed
C19_Witness ==
  /\ pt_op = "repack_all"
  /\ pt_pc = "done"
  /\ Len(ra_results) = 2
  /\ ~ra_results[1].ok
  /\ ra_results[2].ok
  /\ ~pt_result.ok

\* every item failed, in either operation
C19_NoneSucceeded ==
  /\ pt_op = "repack_all" /\ pt_pc = "done" /\ Len(ra_results) = 2
  /\ ~ra_results[1].ok /\ ~ra_results[2].ok /\ ~pt_result.ok

C19_FstabNoneSucceeded ==
  /\ op = "disable_fstab_only" /\ pc = "done" /\ ~cancel_token
  /\ fs_left = 0 /\ fs_ok = 0 /\ fs_result # TaskError("No fstab files found")
  /\ ~op_result.ok

\* the TaskResult.cancelled() of the partition engine's result records
PtCancelled == [ok |-> FALSE, kind |-> "cancelled", artifact |-> "none"]

\* C20: once the cancel flag is set during a bulk operation, no further item is
\* started and the operation returns the Cancelled result: no item of
\* repack_all_partitions starts with the flag set, a repack_all_partitions that
\* was cancelled returns Cancelled, and a disable_fstab_only that the flag
\* stopped before its last file returns Cancelled.
C20_CancelledBulkReturnsCancelled ==
  /\ \A i \in 1..Len(ra_results) : ~ra_results[i].cancelled
  /\ (pt_op = "repack_all" /\ pt_pc = "done" /\ ra_cancel) => pt_result = PtCancelled
  /\ (op = "disable_fstab_only" /\ pc = "done" /\ cancel_token /\ fs_left > 0) =>
       op_result = TaskCancelled

\* a cancelled disable_fstab_only stopped early and reported success; a
\* cancelled repack_all_partitions started its second item and reported success
C20_Witness ==
  /\ op = "disable_fstab_only" /\ pc = "done" /\ cancel_token /\ fs_left > 0
  /\ op_result.ok

C20_RepackAllIgnoresCancel ==
  /\ pt_op = "repack_all" /\ pt_pc = "done" /\ Len(ra_results) = 2
  /\ ~ra_results[1].cancelled /\ ra_results[2].cancelled
  /\ pt_result.ok

\* the fields and mount options of a line: the runs of tokens between commas
\* and blanks
RECURSIVE Pieces(_, _)

Pieces(s, cur) ==
  IF s = <<>> THEN (IF cur = <<>> THEN <<>> ELSE <<cur>>)
  ELSE IF Head(s) \in {",", " "}
  THEN (IF cur = <<>> THEN <<>> ELSE <<cur>>) \o Pieces(Tail(s), <<>>)
  ELSE Pieces(Tail(s), Append(cur, Head(s)))

\* verify, avb, avb=..., avb_keys=..., verity, support_scfs, fileencryption=...,
\* metadata_encryption=...
IsRemovedOption(o) ==
  \/ o \in {<<"verify">>, <<"avb">>, <<"verity">>, <<"support_scfs">>}
  \/ /\ Len(o) >= 2
     /\ o[1] \in {"avb", "avb_keys", "fileencryption", "metadata_encryption"}
     /\ o[2] = "="

\* forceencrypt=... and forcefdeorfbe=...
IsForceOption(o) ==
  Len(o) >= 2 /\ o[1] \in {"forceencrypt", "forcefdeorfbe"} /\ o[2] = "="

CountOptions(s, Test(_)) ==
  Cardinality({i \in 1..Len(Pieces(s, <<>>)) : Test(Pieces(s, <<>>)[i])})

IsEncryptableFooter(o) == o = <<"encryptable", "=", "footer">>

C21_NoListedOptionLeft ==
  (fl_op = "patch" /\ ~IsCommentOrBlank(fl_line)) =>
    \A i \in 1..Len(Pieces(fl_out, <<>>)) :
      /\ ~IsRemovedOption(Pieces(fl_out, <<>>)[i])
      /\ ~IsForceOption(Pieces(fl_out, <<>>)[i])

C21_ForceOptionsReplaced ==
  (fl_op = "patch" /\ ~IsCommentOrBlank(fl_line)) =>
    CountOptions(fl_out, IsEncryptableFooter) >= CountOptions(fl_line, IsForceOption)

C21_CommasClean ==
  (fl_op = "patch" /\ ~IsCommentOrBlank(fl_line)) =>
    \A i \in 1..Len(fl_out) :
      fl_out[i] = "," => i < Len(fl_out) /\ fl_out[i + 1] \notin {",", " "}

C21_CommentsUnchanged ==
  (fl_op = "patch" /\ IsCommentOrBlank(fl_line)) => fl_out = fl_line

\* C21: a patched fstab line holds none of the listed verity, AVB and
\* encryption options, has encryptable=footer for every forceencrypt=... and
\* forcefdeorfbe=... option it had, and has no repeated comma and no comma
\* before a blank or at its end; comment and blank lines are written back as
\* they were.
C21_PatchedLineClean ==
  /\ C21_NoListedOptionLeft
  /\ C21_ForceOptionsReplaced
  /\ C21_CommasClean
  /\ C21_CommentsUnchanged

\* the line avb,forceencrypt= was patched and holds no encryptable=footer
C21_Witness ==
  /\ fl_op = "patch"
  /\ fl_line = <<"avb", ",", "forceencrypt", "=">>
  /\ CountOptions(fl_out, IsEncryptableFooter) = 0

\* a forceencrypt= option that is not behind avb, is replaced
C21_ReplacedReached ==
  /\ fl_op = "patch"
  /\ fl_line = <<"ro", ",", "forceencrypt", "=">>
  /\ fl_out = <<"ro", ",", "encryptable", "=", "footer">>

\* the fields and options of a line that hold none of the keywords
HasNoKeyword(o) == \A i \in 1..Len(o) : o[i] \notin FstabKeywords \cup {"encryptable", "footer"}

OtherOptions(s) == SelectSeq(Pieces(s, <<>>), HasNoKeyword)

\* a is b with some elements left out
RECURSIVE IsSubSeq(_, _)

IsSubSeq(a, b) ==
  IF a = <<>> THEN TRUE
  ELSE IF b = <<>> THEN FALSE
  ELSE IF Head(a) = Head(b) THEN IsSubSeq(Tail(a), Tail(b))
  ELSE IsSubSeq(a, Tail(b))

\* C30: patch_fstab_line touches only the listed options: the fields and
\* options of the line that hold none of the keywords are all in the patched
\* line, in their order.
C30_OtherOptionsKept ==
  (fl_op = "patch" /\ ~IsCommentOrBlank(fl_line)) =>
    IsSubSeq(OtherOptions(fl_line), Pieces(fl_out, <<>>))

\* the option behind a removed avb flag is gone
C30_Witness ==
  /\ fl_op = "patch"
  /\ fl_line = <<"avb", ",", "ro">>
  /\ fl_out = <<>>

\* an option next to a removed verify flag is kept
C30_NeighbourKeptReached ==
  /\ fl_op = "patch"
  /\ fl_line = <<"ro", ",", "verify">>
  /\ fl_out = <<"ro">>

\* C22: over any number of patch runs the backup of an fstab file, once it
\* exists, holds the content the file had before the first run; a file that a
\* run has changed has its backup; and no run selects a backup for patching.
C22_BackupIsFirstCopy ==
  /\ \A n \in FstabNames :
       /\ ff_dir[BackupPath(n)].exists => ff_dir[BackupPath(n)] = ff_orig[n]
       /\ ff_dir[n] # ff_orig[n] => ff_dir[BackupPath(n)].exists
  /\ \A n \in ff_picked : Suffix(n) # "bak"

\* a later run is about to patch fstab.rk again: the file was changed by an
\* earlier run and its backup is there
C22_Witness ==
  /\ ff_todo # <<>>
  /\ Head(ff_todo) = <<"fstab", "rk">>
  /\ ff_dir[<<"fstab", "rk">>] # ff_orig[<<"fstab", "rk">>]
  /\ ff_dir[<<"fstab", "rk", "bak">>] = ff_orig[<<"fstab", "rk">>]

\* C23: a successful repack_partition_image returns out/Image/<partition>_patched.img
\* as its artifact, for raw and for sparse output, and no file named
\* <partition>_patched_sparse.img is ever written.
C23_ArtifactIsPatchedImg ==
  /\ (pt_op = "repack" /\ pt_pc = "done" /\ pt_result.ok) => pt_result.artifact = "patched"
  /\ \A n \in PartNames : pt_out[n].sparse_img = "absent"

\* a sparse repack succeeded: its artifact is <partition>_patched_sparse.img and
\* <partition>_patched.img is gone
C23_Witness ==
  /\ pt_op = "repack"
  /\ pt_pc = "done"
  /\ pt_arg.sparse
  /\ pt_result.ok
  /\ pt_result.artifact = "patched_sparse"
  /\ pt_out[pt_arg.name].patched = "absent"
  /\ pt_out[pt_arg.name].sparse_img # "absent"

\* a raw repack succeeded with <partition>_patched.img as its artifact
C23_RawReached ==
  /\ pt_op = "repack"
  /\ pt_pc = "done"
  /\ ~pt_arg.sparse
  /\ pt_result.ok
  /\ pt_result.artifact = "patched"

\* C24: under every interleaving of submit calls and completions at most one
\* task is between its start_task and its finish_task, the state is RUNNING
\* exactly while there is one, and a submit call that meets the RUNNING state,
\* at can_start_task or at start_task, returns None, starts no worker and
\* leaves the state and the current task as they are.
C24_OneTaskAtATime ==
  /\ [](/\ Cardinality(ActiveTasks) <= 1
        /\ sm_state = "running" <=> ActiveTasks # {})
  /\ [][\A c \in Callers :
          (/\ sm_state = "running"
           /\ tm_call[c].pc \in {"idle", "checked"}
           /\ tm_call'[c].pc # tm_call[c].pc)
          => /\ tm_call'[c].pc = "returned"
             /\ tm_call'[c].ret = 0
             /\ UNCHANGED <<sm_state, sm_current, tm_worker, tm_counter>>]_vars

\* both threads passed can_start_task; thread 1 won start_task and has its
\* worker queued, thread 2 was turned away with None
C24_Witness ==
  /\ tm_worker[1].state = "queued"
  /\ sm_state = "running"
  /\ tm_call[2].pc = "returned"
  /\ tm_call[2].ret = 0
  /\ tm_worker[2].state = "none"

C24_RaceReached == \A c \in Callers : tm_call[c].pc = "checked"

\* C25: every accepted task gets exactly one finish_task once its function has
\* ended, however it ended: a queued worker leads to the state DONE or ERROR
\* with the current task cleared, from which can_start_task holds again; no
\* task is finished twice, and the state is RUNNING only while a task is active.
C25_EveryTaskFinishes ==
  /\ [](/\ \A c \in Callers : tm_finishes[c] <= 1
        /\ ActiveTasks = {} => (sm_state # "running" /\ sm_current = "none"))
  /\ \A c \in Callers :
       (tm_worker[c].state = "queued")
         ~> (/\ tm_worker[c].state = "none"
             /\ tm_finishes[c] = 1
             /\ sm_state \in {"done", "error"}
             /\ sm_current = "none"
             /\ CanStartTask(sm_state))

\* the task of thread 1 failed and was finished; thread 2 is submitting the
\* next task and has passed can_start_task
C25_Witness ==
  /\ sm_state = "error"
  /\ sm_current = "none"
  /\ tm_finishes[1] = 1
  /\ tm_worker[1] = NoWorker
  /\ tm_call[2].pc = "checked"

\* an extract_partition_image call that got as far as running the extractor
ExtractorRan == pt_op = "extract" /\ pt_pc = "done" /\ pt_run.extractor # "none"

C26_TimeoutLikeFailure ==
  ExtractorRan =>
    (pt_result.ok <=> ValidateExtractOutput(pt_src[pt_arg.name]))

C26_NoSecondInvocation ==
  (ExtractorRan /\ pt_run.calls > 1) => pt_run.first_ends = "exit_0"

\* C26: a timeout of an extractor invocation has the effect of a non-zero exit
\* status on the result (the result is decided by the output directory alone,
\* whichever way the tool ended), and after a timeout or a failure the
\* extractor is not invoked again.
C26_TimeoutIsFailureNoRetry ==
  /\ C26_TimeoutLikeFailure
  /\ C26_NoSecondInvocation

\* extract.erofs timed out without output and was run a second time
C26_Witness ==
  /\ ExtractorRan
  /\ pt_run.first_ends = "timeout"
  /\ pt_run.calls = 2

\* debugfs timed out: one invocation, and an error result
C26_Ext4TimeoutReached ==
  /\ ExtractorRan
  /\ pt_img.fs = "ext4"
  /\ pt_run.first_ends = "timeout"
  /\ pt_run.calls = 1
  /\ ~pt_result.ok

\* C29: extract_partition_image succeeds only on files of the current
\* extractor run: when the extractor failed (non-zero exit or timeout) and
\* wrote nothing, the result is a failure, also when out/Source/<partition>/
\* holds files of an earlier extract.
C29_NoSuccessOnStaleFiles ==
  (ExtractorRan /\ pt_run.ends # "exit_0" /\ ~pt_run.wrote) => ~pt_result.ok

\* a re-extract whose extractor failed and wrote nothing reports success on
\* the files of the earlier extract
C29_Witness ==
  /\ ExtractorRan
  /\ pt_run.ends # "exit_0"
  /\ ~pt_run.wrote
  /\ pt_result.ok
  /\ pt_before.meta[pt_arg.name].present

\* a first extract whose extractor failed and wrote nothing is a failure
C29_FirstExtractFails ==
  /\ ExtractorRan
  /\ pt_run.ends # "exit_0"
  /\ ~pt_run.wrote
  /\ ~pt_result.ok
  /\ ~pt_before.meta[pt_arg.name].present

C28_SkippedReached ==
  /\ pt_op = "repack_all" /\ pt_pc = "done"
  /\ Len(pt_before.index) = 2
  /\ Len(ra_results) = 1
  /\ pt_result.ok

\* one entry failed, the other repacked: the failure that lists the failed one
C28_FailedReached ==
  /\ pt_op = "repack_all" /\ pt_pc = "done"
  /\ Len(ra_results) = 2
  /\ ra_results[1].ok /\ ~ra_results[2].ok
  /\ pt_result = PtError("repack_all_failed")

\* C27: no build state is carried in memory from one call to the next: the
\* image size, the source directory and the metadata paths that a bulk build
\* hands to build_image for a partition are the ones that follow from the
\* call's arguments and the project's folders at the time of the call.
C27_NoStateAcrossCalls ==
  (bi_pc # "idle" /\ bi_last # NoBuild) =>
    bi_last.config = ExpectedConfig(bi_last.project,
                                    bi_disk[bi_last.project][bi_last.partition])

\* the second build of system_a, for another project whose folder is larger,
\* is given the image size computed for the first project
C27_Witness ==
  /\ bi_pc # "idle"
  /\ bi_last.project = "B"
  /\ bi_last.partition = "system_a"
  /\ bi_disk["B"]["system_a"].size = 8192
  /\ bi_last.config.image_size = EstimateImageSize(4096)

\* a file_contexts path found in project A is handed to the build of project B,
\* which has no such file
C27_StalePathReached ==
  /\ bi_pc # "idle"
  /\ bi_last.project = "B"
  /\ bi_disk["B"][bi_last.partition].fc = "none"
  /\ bi_last.config.file_contexts = PathIn("A", "config")

\* with configs of the caller, the build takes everything from this call
C27_GivenConfigsReached ==
  /\ bi_pc # "idle"
  /\ bi_call.given
  /\ bi_last # NoBuild
  /\ bi_defaults # DEFAULT_PARTITION_CONFIGS
  /\ bi_last.config = ExpectedConfig(bi_last.project,
                                     bi_disk[bi_last.project][bi_last.partition])

====
